---- MODULE Spec2Model ----
(***************************************************************************)
(* A model of pipda's registration, dispatch and evaluation protocol:      *)
(* register_verb / register_func (their registry, favorables and contexts  *)
(* dictionaries), the dispatch algorithm over backends, get_context, and   *)
(* the evaluation of VerbCall and FunctionCall nodes.                      *)
(*                                                                         *)
(* One registered object (a verb, a dispatchable function or a plain       *)
(* function) is modelled.  Function objects are named by strings: "func"   *)
(* is the function handed to register_verb/register_func,                  *)
(* "_backend_generic" is the placeholder that raises NotImplementedError,  *)
(* and "f1", "f2", ... are the functions handed to the successive          *)
(* .register() calls (each call decorates a new function object).          *)
(***************************************************************************)
EXTENDS Integers, Sequences, FiniteSets, TLC

\* ------------------------------------------------------------------ bounds
\* number of .register() calls explored after construction (dispatch spec)
MaxRegs == 2
\* number of .register() calls explored after construction (evaluation spec)
MaxCtxRegs == 1
\* depth of the expression nodes built
MaxLevel == 2
\* number of operator nodes in the expression built
MaxOps == 1

\* --------------------------------------------------------------- constants
DEFAULT_BACKEND == "_default"
\* the value of an omitted `backend` argument (Python None)
NoBackend == "<None>"
\* the backends that .register() calls name, and one that is never registered
Backends == {DEFAULT_BACKEND, "A", "B"}
MissingBackend == "not_exist"

\* the runtime types: bool < int < object, str < object, NoneType < object
Types == {"object", "int", "bool", "str", "NoneType"}

\* cls.__base__ of the modelled types
Base(t) == IF t = "bool" THEN "int" ELSE "object"

\* cls.__mro__ of the modelled types
RECURSIVE mro(_)
mro(t) == IF t = "object" THEN <<"object">> ELSE <<t>> \o mro(Base(t))

\* the three kinds of registered object
Kinds == {"verb", "dispatchable", "func"}

\* the functions of register_func, register_func(plain=True) included
FuncKinds == {"dispatchable", "func", "plain"}

\* Python None as a context, the members of the Context enum that
\* registrations pass, and the ContextBase objects that are their values
CtxNone == "None"
ContextEnum == {"Context.SELECT", "Context.EVAL", "Context.PENDING"}
ContextObjects == {"ContextSelect", "ContextEval", "ContextPending"}

\* context.value if isinstance(context, Enum) else context
EnumValue(c) ==
    CASE c = "Context.SELECT" -> "ContextSelect"
      [] c = "Context.EVAL" -> "ContextEval"
      [] c = "Context.PENDING" -> "ContextPending"
      [] c = "Context.MIXED" -> "ContextMixed"
      [] OTHER -> c

\* the parameters of every function registered: (data, x, *, plus)
Params == {"data", "x", "plus"}

\* the keyword of the one keyword argument of the call nodes evaluated
CallKey == "plus"

\* a kw_context argument: Python None, or a dict name -> context,
\* written as a set of <<name, context>> pairs
KwNone == [none |-> TRUE, m |-> {}]
KwDict(m) == [none |-> FALSE, m |-> m]

VARIABLES
    kind,            \* "verb" (register_verb), "dispatchable" / "func" (register_func)
    cls,             \* the cls argument: {} for TypeHolder, else the set of types
    context,         \* the context argument of register_verb / register_func
    kw_context,      \* the kw_context argument of register_verb / register_func
    pipeable,        \* the pipeable argument of register_func
    registry_keys,   \* key order of the registry OrderedDict
    registry,        \* backend -> (type -> function), "" where nothing is registered
    favorables,      \* backend -> favored function, "" where none
    contexts,        \* function -> [c, k], the contexts dictionary
    backends,        \* function -> backend, the bookkeeping dictionary of register_verb
    nreg,            \* number of .register() calls made so far
    out,             \* what the last dispatch or evaluation did
    expr,            \* the expression node under construction: the steps from
                     \* its innermost node up to the node itself
    op_data,         \* the data attribute of the outermost operator node of
                     \* expr
    REGISTERED,      \* Operator.REGISTERED, the operator class in use
    PIPING,          \* VerbCall.PIPING, the piping operator in use
    orig_opmethod,   \* VerbCall.__orig_opmethod__
    rmethods,        \* reflected method of VerbCall -> what it is bound to
    PATCHED_CLASSES, \* the entry of the class Data: whether it is registered
                     \* and the methods saved for it, -1 where none is saved
    Data_methods,    \* method of the class Data -> number of wrappers around
                     \* the method the class defined, -1 where it defines none
    CURRENT_SIGN,    \* Verb.CURRENT_SIGN, the piping sign of the older API
    Verb_methods,    \* the reflected methods set on the class Verb itself
    NAME             \* Symbolic.NAME, the one symbol name of the older API

vars == <<kind, cls, context, kw_context, pipeable, registry_keys, registry, favorables,
          contexts, backends, nreg, out, expr, op_data, REGISTERED, PIPING,
          orig_opmethod, rmethods, PATCHED_CLASSES, Data_methods,
          CURRENT_SIGN, Verb_methods, NAME>>

\* the state of the classes of the package
pipevars == <<PIPING, orig_opmethod, rmethods, PATCHED_CLASSES, Data_methods,
              CURRENT_SIGN, Verb_methods>>

clsvars == <<REGISTERED, NAME>>

envvars == <<clsvars, pipevars>>

regvars == <<kind, cls, context, kw_context, pipeable, registry_keys, registry,
             favorables, contexts, nreg, expr, op_data, envvars>>

\* ----------------------------------------------------------------- piping
\* PIPING_OPS: operator -> the reflected method of VerbCall
PIPING_OPS == {">>", "|", "//", "@", "%", "&", "^"}

RMethod(op) ==
    CASE op = ">>" -> "__rrshift__"
      [] op = "|" -> "__ror__"
      [] op = "//" -> "__rfloordiv__"
      [] op = "@" -> "__rmatmul__"
      [] op = "%" -> "__rmod__"
      [] op = "&" -> "__rand__"
      [] op = "^" -> "__rxor__"

RMethods == {RMethod(op) : op \in PIPING_OPS}

\* PIPING_OPS[op][0].replace("__r", "__"), .replace("__r", "__i")
Method(op) ==
    CASE op = ">>" -> "__rshift__"
      [] op = "|" -> "__or__"
      [] op = "//" -> "__floordiv__"
      [] op = "@" -> "__matmul__"
      [] op = "%" -> "__mod__"
      [] op = "&" -> "__and__"
      [] op = "^" -> "__xor__"

IMethod(op) ==
    CASE op = ">>" -> "__irshift__"
      [] op = "|" -> "__ior__"
      [] op = "//" -> "__ifloordiv__"
      [] op = "@" -> "__imatmul__"
      [] op = "%" -> "__imod__"
      [] op = "&" -> "__iand__"
      [] op = "^" -> "__ixor__"

ClassMethods == {Method(op) : op \in PIPING_OPS} \cup
                {IMethod(op) : op \in PIPING_OPS}

\* PIPING_SIGNS of the older API: sign -> the reflected method of Verb
PIPING_SIGNS ==
    {"+", "-", "*", "@", "/", "//", "%", "**", "<<", ">>", "&", "^", "|"}

SignMethod(sign) ==
    CASE sign = "+" -> "__radd__"
      [] sign = "-" -> "__rsub__"
      [] sign = "*" -> "__rmul__"
      [] sign = "@" -> "__rmatmul__"
      [] sign = "/" -> "__rtruediv__"
      [] sign = "//" -> "__rfloordiv__"
      [] sign = "%" -> "__rmod__"
      [] sign = "**" -> "__rpow__"
      [] sign = "<<" -> "__rlshift__"
      [] sign = ">>" -> "__rrshift__"
      [] sign = "&" -> "__rand__"
      [] sign = "^" -> "__rxor__"
      [] sign = "|" -> "__ror__"

\* the operator methods the class Data defines
DataDefined == {"__rshift__", "__irshift__", "__and__"}

\* the state of the registered verb or function
funvars == <<kind, cls, context, kw_context, pipeable, registry_keys, registry,
             favorables, contexts, nreg, backends>>

\* ----------------------------------------------------------------- helpers
Reverse(s) == [i \in 1..Len(s) |-> s[Len(s) + 1 - i]]

SeqToSet(s) == {s[i] : i \in 1..Len(s)}

\* cls is TypeHolder
IsGeneric == cls = {}

\* func if cls is TypeHolder else _backend_generic
GenericOrPlaceholder == IF IsGeneric THEN "func" ELSE "_backend_generic"

EmptyTable == [t \in Types |-> ""]

\* singledispatch(base): only `object` is registered, to base
NewTable(base) == [EmptyTable EXCEPT !["object"] = base]

\* the first type of the mro of cl that has an entry in the table
RECURSIVE FirstRegistered(_, _)
FirstRegistered(tab, ts) ==
    IF tab[Head(ts)] # "" THEN Head(ts) ELSE FirstRegistered(tab, Tail(ts))

\* a lookup that matches the exact type only and ignores the ancestors
RegDispatch_exact(b, cl) ==
    IF registry[b][cl] # "" THEN registry[b][cl] ELSE registry[b]["object"]

\* reg.dispatch(cl) of functools.singledispatch
RegDispatch(b, cl) == registry[b][FirstRegistered(registry[b], mro(cl))]

\* nothing observed.  op: the call made; cl, clses, backend: its arguments;
\* impl, warned, impls: what dispatch returned, whether it warned and the
\* pairs its scan kept; error: the exception raised; inherited: the context
\* argument of _pipda_eval; ctx: the effective context; argctx, kwctx: the
\* context each argument was evaluated under ("raw": passed unevaluated,
\* "": never reached); args, kwargs: what the implementation received;
\* called: the implementation was invoked; accepted: the per-parameter
\* mapping a registration kept; node: the call node returned; given: the
\* arguments the registered name was called with; piping: the call was found
\* to be the right operand of the piping operator; data, result: the data an
\* expression was evaluated against and the value it gave
NoOut ==
    [op |-> "none", cl |-> "", clses |-> <<>>, backend |-> "", impl |-> "",
     warned |-> FALSE, error |-> "", impls |-> <<>>,
     inherited |-> "", ctx |-> "", argctx |-> "", kwctx |-> "",
     args |-> "", kwargs |-> "", called |-> FALSE, accepted |-> {},
     node |-> "", given |-> <<>>, piping |-> FALSE,
     data |-> "", result |-> ""]

\* -------------------------------------------------- register_verb.dispatch
\* a scan that visits the backends oldest first
ScanOrder_forward == registry_keys

\* reversed(registry.items()): the backends in the order the scan visits them
ScanOrder == Reverse(registry_keys)

\* fun is _backend_generic
IsBackendGeneric(fun) == fun = "_backend_generic"

\* a scan that counts the generic function as an implementation
IsGenericFunc_counted(b, fun) == FALSE

\* fun is func and cls is TypeHolder and backend == DEFAULT_BACKEND
IsGenericFunc(b, fun) == fun = "func" /\ IsGeneric /\ b = DEFAULT_BACKEND

\* favored_found and favorables.get(backend) is not fun
IsShadowed(b, fun, favored_found) == favored_found /\ favorables[b] # fun

\* the for loop of register_verb.dispatch: the (backend, fun) pairs kept
RECURSIVE VerbScan(_, _, _, _)
VerbScan(bs, cl, impls, favored_found) ==
    IF bs = <<>> THEN impls
    ELSE LET b == Head(bs)
             fun == RegDispatch(b, cl)
         IN  IF \/ IsBackendGeneric(fun)
                \/ IsGenericFunc(b, fun)
                \/ IsShadowed(b, fun, favored_found)
             THEN VerbScan(Tail(bs), cl, impls, favored_found)
             ELSE VerbScan(Tail(bs), cl, Append(impls, <<b, fun>>),
                           favored_found \/ favorables[b] = fun)

\* backends[fun] = backend for every pair kept by the scan, in scan order
RECURSIVE RecordBackends(_, _)
RecordBackends(bk, impls) ==
    IF impls = <<>> THEN bk
    ELSE RecordBackends((Head(impls)[2] :> Head(impls)[1]) @@ bk, Tail(impls))

\* len(impls) > 1: the MultiImplementationsWarning is emitted
Ambiguous(impls) == Len(impls) > 1

\* what the scan returns: impls[0][1], or the generic / placeholder
Chosen(impls) == IF impls = <<>> THEN GenericOrPlaceholder ELSE impls[1][2]

\* a dispatch that scans all the backends when the named backend has nothing
dispatch_fallthrough(cl, backend) ==
    LET impls == VerbScan(ScanOrder, cl, <<>>, FALSE)
        scanned == [impl |-> Chosen(impls), warned |-> Ambiguous(impls),
                    error |-> "", impls |-> impls]
    IN  IF backend = NoBackend \/ backend \notin SeqToSet(registry_keys)
        THEN scanned
        ELSE IF IsBackendGeneric(RegDispatch(backend, cl)) THEN scanned
        ELSE [impl |-> RegDispatch(backend, cl), warned |-> FALSE,
              error |-> "", impls |-> <<>>]

\* register_verb.dispatch(cl, backend)
dispatch(cl, backend) ==
    IF backend # NoBackend
    THEN IF backend \notin SeqToSet(registry_keys)
         THEN [impl |-> "", warned |-> FALSE, error |-> "NotImplementedError",
               impls |-> <<>>]
         ELSE [impl |-> RegDispatch(backend, cl), warned |-> FALSE,
               error |-> "", impls |-> <<>>]
    ELSE LET impls == VerbScan(ScanOrder, cl, <<>>, FALSE)
         IN  [impl |-> Chosen(impls), warned |-> Ambiguous(impls),
              error |-> "", impls |-> impls]

\* -------------------------------------------------- register_func.dispatch
\* dispatchable is truthy
IsDispatchable == kind \notin {"func", "plain"}

\* registry[backend] of a function that is not dispatchable: the function itself
RegFunc(b) == registry[b]["object"]

\* the previously found impl is not dispatched by object, this one is
IsWorse(b, fun, impls) ==
    /\ impls # <<>>
    /\ impls[Len(impls)][2] # RegDispatch(impls[Len(impls)][1], "object")
    /\ fun = RegDispatch(b, "object")

\* the inner loop `for cl in clses` of the scan: the impl found, "" for None
RECURSIVE FuncPick(_, _, _, _)
FuncPick(b, clses, impls, favored_found) ==
    IF clses = <<>> THEN ""
    ELSE LET fun == RegDispatch(b, Head(clses))
         IN  IF \/ IsBackendGeneric(fun)
                \/ IsGenericFunc(b, fun)
                \/ IsShadowed(b, fun, favored_found)
                \/ IsWorse(b, fun, impls)
             THEN FuncPick(b, Tail(clses), impls, favored_found)
             ELSE fun

\* a scan that takes from every backend what it gives for the first type
FuncBackendImpl_head(b, clses, impls, favored_found) ==
    RegDispatch(b, Head(clses))

\* the impl a backend contributes to the scan, "" for None
FuncBackendImpl(b, clses, impls, favored_found) ==
    IF ~IsDispatchable
    THEN IF \/ (b = DEFAULT_BACKEND /\ IsGeneric)
            \/ IsShadowed(b, RegFunc(b), favored_found)
         THEN ""
         ELSE RegFunc(b)
    ELSE FuncPick(b, clses, impls, favored_found)

\* the outer loop of register_func.dispatch
RECURSIVE FuncScan(_, _, _, _)
FuncScan(bs, clses, impls, favored_found) ==
    IF bs = <<>> THEN impls
    ELSE LET b == Head(bs)
             impl == FuncBackendImpl(b, clses, impls, favored_found)
         IN  IF impl = ""
             THEN FuncScan(Tail(bs), clses, impls, favored_found)
             ELSE FuncScan(Tail(bs), clses, Append(impls, <<b, impl>>),
                           favored_found \/ favorables[b] = impl)

\* the loop of the explicit-backend branch: the first impl that is not
\* the placeholder
RECURSIVE FuncExplicit(_, _)
FuncExplicit(b, clses) ==
    IF clses = <<>> THEN "_backend_generic"
    ELSE LET fun == RegDispatch(b, Head(clses))
         IN  IF ~IsBackendGeneric(fun) THEN fun
             ELSE FuncExplicit(b, Tail(clses))

\* if not clses: clses = (type(None),)
DefaultClses(clses) == IF clses = <<>> THEN <<"NoneType">> ELSE clses

\* register_func.dispatch(*clses, backend)
func_dispatch(clses0, backend) ==
    LET clses == DefaultClses(clses0)
    IN  IF backend # NoBackend
        THEN IF backend \notin SeqToSet(registry_keys)
             THEN [impl |-> "", warned |-> FALSE,
                   error |-> "NotImplementedError", impls |-> <<>>]
             ELSE [impl |-> IF ~IsDispatchable THEN RegFunc(backend)
                            ELSE FuncExplicit(backend, clses),
                   warned |-> FALSE, error |-> "", impls |-> <<>>]
        ELSE LET impls == FuncScan(ScanOrder, clses, <<>>, FALSE)
             IN  [impl |-> Chosen(impls), warned |-> Ambiguous(impls),
                  error |-> "", impls |-> impls]

\* ------------------------------------------------------------ construction
\* the registry built by register_verb / register_func
InitTable ==
    IF ~IsDispatchable THEN NewTable("func")
    ELSE [t \in Types |-> IF t \in cls THEN "func"
                          ELSE NewTable(GenericOrPlaceholder)[t]]

\* the contexts dictionary after construction
InitContexts ==
    LET own == [c |-> context, k |-> kw_context]
        base == (GenericOrPlaceholder :> own)
    IN  IF IsDispatchable /\ ~IsGeneric
           /\ (context # CtxNone \/ ~kw_context.none)
        THEN ("func" :> own) @@ base
        ELSE base

\* the state after register_verb(...) / register_func(...) returned
InitWith(K, C, X, W, P) ==
    /\ kind \in K
    /\ pipeable \in (IF kind \in {"verb", "plain"} THEN {FALSE} ELSE P)
    /\ cls \in C
    /\ context \in X
    /\ kw_context \in W
    /\ registry_keys = <<DEFAULT_BACKEND>>
    /\ registry = [b \in Backends |->
                     IF b = DEFAULT_BACKEND THEN InitTable ELSE EmptyTable]
    /\ favorables = [b \in Backends |-> ""]
    /\ contexts = InitContexts
    /\ backends = <<>>
    /\ nreg = 0
    /\ out = NoOut
    /\ expr = <<>>
    /\ op_data = "None"
    /\ REGISTERED = "Operator"
    /\ PIPING = ">>"
    /\ orig_opmethod = "original"
    /\ rmethods = [m \in RMethods |->
                      IF m = "__rrshift__" THEN "_pipda_eval" ELSE "original"]
    /\ PATCHED_CLASSES = [registered |-> FALSE,
                          saved |-> [m \in ClassMethods |-> -1]]
    /\ Data_methods = [m \in ClassMethods |->
                          IF m \in DataDefined THEN 0 ELSE -1]
    /\ CURRENT_SIGN = "None"
    /\ Verb_methods = {}
    /\ NAME = "None"

\* ---------------------------------------------------------------- register
\* the name of the function decorated by the next .register() call
NextFunc == "f" \o ToString(nreg + 1)

\* the registry entry of `backend` after registering fn for the types rcls
Registered(rcls, backend, fn) ==
    LET tab == IF backend \in SeqToSet(registry_keys) THEN registry[backend]
               ELSE NewTable("_backend_generic")
    IN  [t \in Types |-> IF t \in rcls THEN fn ELSE tab[t]]

\* what .register() does besides filling the registry entry
RegisterRest(rcls, backend, ctx, kwc, favored, fn) ==
    /\ registry_keys' = IF backend \in SeqToSet(registry_keys)
                        THEN registry_keys
                        ELSE Append(registry_keys, backend)
    /\ contexts' = IF ctx # CtxNone \/ ~kwc.none
                   THEN (fn :> [c |-> ctx, k |-> kwc]) @@ contexts
                   ELSE contexts
    /\ favorables' = IF favored THEN [favorables EXCEPT ![backend] = fn]
                     ELSE favorables
    /\ nreg' = nreg + 1
    /\ out' = NoOut
    /\ UNCHANGED <<kind, cls, context, kw_context, pipeable, backends, expr,
                   op_data, envvars>>

\* verb.register(rcls, backend=, context=, kw_context=, favored=)(fn)
register(rcls, backend, ctx, kwc, favored) ==
    /\ kind = "verb"
    /\ registry' = [registry EXCEPT
                      ![backend] = Registered(rcls, backend, NextFunc)]
    /\ RegisterRest(rcls, backend, ctx, kwc, favored, NextFunc)

\* func.register(rcls, backend=, favored=, context=, kw_context=)(fn)
func_register(rcls, backend, ctx, kwc, favored) ==
    /\ kind # "verb"
    /\ registry' = [registry EXCEPT
                      ![backend] = IF ~IsDispatchable THEN NewTable(NextFunc)
                                   ELSE Registered(rcls, backend, NextFunc)]
    /\ RegisterRest(IF ~IsDispatchable THEN {"object"} ELSE rcls,
                    backend, ctx, kwc, favored, NextFunc)

\* ------------------------------------------------------- calls to dispatch
\* verb.dispatch(cl, backend=backend), observed
Dispatch(cl, backend) ==
    /\ kind = "verb"
    /\ LET r == dispatch(cl, backend)
       IN  /\ out' = [NoOut EXCEPT !.op = "dispatch", !.cl = cl,
                        !.clses = <<cl>>, !.backend = backend,
                        !.impl = r.impl, !.warned = r.warned,
                        !.error = r.error, !.impls = r.impls]
           /\ backends' = RecordBackends(backends, r.impls)
    /\ UNCHANGED regvars

\* func.dispatch(*clses, backend=backend), observed
FuncDispatch(clses, backend) ==
    /\ kind # "verb"
    /\ LET r == func_dispatch(clses, backend)
       IN  out' = [NoOut EXCEPT !.op = "dispatch",
                     !.cl = DefaultClses(clses)[1],
                     !.clses = DefaultClses(clses), !.backend = backend,
                     !.impl = r.impl, !.warned = r.warned,
                     !.error = r.error, !.impls = r.impls,
                     !.given = clses]
    /\ UNCHANGED <<regvars, backends>>

\* -------------------------------------------------------------- evaluation
\* get_context(impl, default) of a verb or a function: the (context,
\* kw_context) pair stored for impl, else the pair given at construction; a
\* None context is replaced by the default
get_context(impl, default) ==
    LET o == IF impl \in DOMAIN contexts THEN contexts[impl]
             ELSE [c |-> context, k |-> kw_context]
    IN  IF o.c = CtxNone THEN [c |-> default, k |-> o.k] ELSE o

\* a lookup that never finds the key
KwGet_default(kwc, key, default) == default

\* kw_context.get(key, context) with kw_context = kw_context or {}
KwGet(kwc, key, default) ==
    IF \E p \in kwc.m : p[1] = key
    THEN (CHOOSE p \in kwc.m : p[1] = key)[2]
    ELSE default

\* evaluating a reference f.x under a context object: without a context it
\* raises ContextError, a pending context raises NotImplementedError, select
\* yields the name and eval the attribute of the data
EvalRef(ctx) ==
    CASE ctx = CtxNone -> [val |-> "", error |-> "ContextError"]
      [] ctx = "ContextSelect" -> [val |-> "name", error |-> ""]
      [] ctx = "ContextEval" -> [val |-> "value", error |-> ""]
      [] OTHER -> [val |-> "", error |-> "NotImplementedError"]

\* evaluate_expr(expr, data, context) for a reference expr
evaluate_expr(ctx) == EvalRef(EnumValue(ctx))

\* the exception of calling impl: the placeholder of a backend raises
CallError(impl) ==
    IF impl = "_backend_generic" THEN "NotImplementedError" ELSE ""

\* the arguments an implementation is called with, under the context ctx for
\* the positional ones and kwc for the keyword ones; the generator of the
\* positional arguments runs after the keyword arguments are evaluated
VerbCallArgs_evaluated(o, impl, ctx, kwc) ==
    LET kctx == EnumValue(KwGet(kwc, CallKey, ctx))
        k == evaluate_expr(kctx)
        a == evaluate_expr(ctx)
    IN  IF k.error # ""
        THEN [o EXCEPT !.kwctx = kctx, !.error = k.error]
        ELSE IF a.error # ""
        THEN [o EXCEPT !.kwctx = kctx, !.kwargs = k.val, !.argctx = ctx,
                       !.error = a.error]
        ELSE [o EXCEPT !.kwctx = kctx, !.kwargs = k.val, !.argctx = ctx,
                       !.args = a.val, !.called = TRUE,
                       !.error = CallError(impl)]

\* VerbCall._pipda_eval without its test for a pending context
VerbCallArgs_nopending(o, impl, ctx, kwc) ==
    VerbCallArgs_evaluated(o, impl, ctx, kwc)

\* the call of the implementation: a pending context passes the arguments as
\* they are
VerbCallArgs(o, impl, ctx, kwc) ==
    IF ctx = "ContextPending"
    THEN [o EXCEPT !.argctx = "raw", !.kwctx = "raw", !.args = "expr",
                   !.kwargs = "expr", !.called = TRUE,
                   !.error = CallError(impl)]
    ELSE VerbCallArgs_evaluated(o, impl, ctx, kwc)

\* VerbCall(verb, f.x, plus=f.y)._pipda_eval(data, inherited), data of type dt;
\* the call node of a verb, or of a pipeable function with data piped in
VerbCall_pipda_eval(dt, inherited, backend) ==
    /\ kind = "verb" \/ pipeable
    /\ LET r == IF kind = "verb" THEN dispatch(dt, backend)
                ELSE func_dispatch(<<dt>>, backend)
           gc == get_context(r.impl, inherited)
           o == [NoOut EXCEPT !.op = "VerbCall", !.cl = dt, !.clses = <<dt>>,
                   !.backend = backend, !.impl = r.impl, !.warned = r.warned,
                   !.impls = r.impls, !.inherited = inherited]
       IN  /\ out' = IF r.error # "" THEN [o EXCEPT !.error = r.error]
                     ELSE VerbCallArgs([o EXCEPT !.ctx = EnumValue(gc.c)],
                                       r.impl, EnumValue(gc.c), gc.k)
           /\ backends' = IF kind = "verb"
                          THEN RecordBackends(backends, r.impls)
                          ELSE backends
    /\ UNCHANGED regvars

\* the class of an evaluated reference: a name is a str, the attribute of the
\* data has the type dt
EvaluatedClass(ctx, dt) ==
    IF EnumValue(ctx) = "ContextSelect" THEN "str" ELSE dt

\* a call of the implementation that evaluates none of the remaining arguments
FunctionCallVerbArgs_unevaluated(o, impl, ctx, kwc) ==
    [o EXCEPT !.called = TRUE, !.error = CallError(impl)]

\* the remaining arguments of a verb called as a function, evaluated against
\* the evaluated first argument: positional ones first, under ctx
FunctionCallVerbArgs(o, impl, ctx, kwc) ==
    LET kctx == KwGet(kwc, CallKey, ctx)
        a == evaluate_expr(ctx)
        k == evaluate_expr(kctx)
    IN  IF a.error # ""
        THEN [o EXCEPT !.argctx = EnumValue(ctx), !.error = a.error]
        ELSE IF k.error # ""
        THEN [o EXCEPT !.argctx = EnumValue(ctx), !.args = a.val,
                       !.kwctx = EnumValue(kctx), !.error = k.error]
        ELSE [o EXCEPT !.argctx = EnumValue(ctx), !.args = a.val,
                       !.kwctx = EnumValue(kctx), !.kwargs = k.val,
                       !.called = TRUE, !.error = CallError(impl)]

\* remaining arguments that are evaluated against the data of the enclosing
\* call
RestData_enclosing(data, first) == data

\* evaluate_expr(arg, dt, ctx) for arg in args[1:]: the object the remaining
\* arguments are evaluated against is the evaluated first argument
RestData(data, first) == first

\* FunctionCall(verb, f.d, f.x, plus=f.y)._pipda_eval(data, inherited), the
\* attribute d of the data being of type dt: a verb called with an expression
\* as its data, nested in another call
FunctionCallVerb(dt, inherited, backend) ==
    /\ kind = "verb"
    /\ LET d == evaluate_expr(inherited)
           cl == EvaluatedClass(inherited, dt)
           r == dispatch(cl, backend)
           gc == get_context(r.impl, inherited)
           ctx == IF gc.c = CtxNone THEN inherited ELSE gc.c
           o == [NoOut EXCEPT !.op = "FunctionCall", !.inherited = inherited,
                   !.backend = backend]
           od == [o EXCEPT !.cl = cl, !.clses = <<cl>>, !.impl = r.impl,
                    !.warned = r.warned, !.impls = r.impls,
                    !.data = RestData("data", d.val)]
       IN  /\ out' = IF d.error # "" THEN [o EXCEPT !.error = d.error]
                     ELSE IF r.error # "" THEN [od EXCEPT !.error = r.error]
                     ELSE FunctionCallVerbArgs(
                              [od EXCEPT !.ctx = EnumValue(ctx)],
                              r.impl, ctx, gc.k)
           /\ backends' = IF d.error # "" THEN backends
                          ELSE RecordBackends(backends, r.impls)
    /\ UNCHANGED regvars

\* FunctionCall(func, f.x, plus=f.y)._pipda_eval(data, inherited), the
\* attribute x of the data being of type dt: the deferred call of a function.
\* Every argument is evaluated under the inherited context, then the
\* implementation is looked up by the classes of the evaluated arguments
FunctionCallFunc(dt, inherited, backend) ==
    /\ kind \in {"dispatchable", "func"}
    /\ LET a == evaluate_expr(inherited)
           k == evaluate_expr(inherited)
           cl == EvaluatedClass(inherited, dt)
           r == func_dispatch(IF IsDispatchable THEN <<cl>> ELSE <<>>, backend)
           o == [NoOut EXCEPT !.op = "FunctionCall", !.inherited = inherited,
                   !.backend = backend, !.ctx = EnumValue(inherited),
                   !.argctx = EnumValue(inherited), !.data = "data"]
           oe == [o EXCEPT !.args = a.val, !.kwctx = EnumValue(inherited),
                    !.kwargs = k.val, !.cl = cl, !.clses = <<cl>>,
                    !.impl = r.impl, !.warned = r.warned, !.impls = r.impls]
       IN  out' = IF a.error # "" THEN [o EXCEPT !.error = a.error]
                  ELSE IF r.error # "" THEN [oe EXCEPT !.error = r.error]
                  ELSE [oe EXCEPT !.called = TRUE, !.error = CallError(r.impl)]
    /\ UNCHANGED <<regvars, backends>>

\* the implementation evaluating, under EVAL and against its data, an argument
\* it received raw
EvaluateRaw ==
    /\ out.called /\ out.args = "expr" /\ out.error = ""
    /\ LET r == evaluate_expr("Context.EVAL")
       IN  out' = [out EXCEPT !.op = "evaluate_expr", !.args = r.val,
                     !.argctx = "ContextEval", !.error = r.error]
    /\ UNCHANGED <<regvars, backends>>

\* --------------------------------------- registration with extra_contexts
\* the keys of a per-parameter context mapping
KwKeys(kwc) == {p[1] : p \in kwc.m}

\* _clean_register_args: the context and the extra_contexts as they are kept,
\* enum members replaced by their values, a missing mapping by an empty one
clean_register_args(ctx, extra) ==
    [context |-> EnumValue(ctx),
     extra_contexts |-> {<<p[1], EnumValue(p[2])>> : p \in extra.m}]

\* register.register_verb(types, context, func, extra_contexts): types_none
\* tells that types is None
register_verb(types_none, ctx, extra) ==
    /\ LET a == clean_register_args(ctx, extra)
       IN  out' = IF types_none
                  THEN [NoOut EXCEPT !.op = "register_verb",
                          !.error = "ValueError"]
                  ELSE [NoOut EXCEPT !.op = "register_verb",
                          !.ctx = a.context, !.accepted = a.extra_contexts]
    /\ UNCHANGED <<regvars, backends>>

\* Operator.set_context(context, extra_contexts)(func)
set_context(ctx, extra) ==
    /\ out' = [NoOut EXCEPT !.op = "set_context", !.ctx = EnumValue(ctx),
                 !.accepted = {<<p[1], EnumValue(p[2])>> : p \in extra.m}]
    /\ UNCHANGED <<regvars, backends>>

\* ------------------------------------------------- register_func.wrapper
\* the arguments a registered name is called with: values of a type, an
\* expression, a list holding an expression
ArgValues == {"int", "str"}

ArgShapes == ArgValues \cup {"expr", "list_expr"}

\* has_expr(arg): arg is an Expression or a container holding one
has_expr(arg) == arg \in {"expr", "list_expr"}

\* arg.__class__ of a value
ArgClass(arg) == IF arg \in ArgValues THEN arg ELSE "object"

\* the direct call at the end of the wrapper: the implementation is looked up
\* by the classes of all the arguments and called with them as they are
WrapperCall(o, arg, kwarg, backend) ==
    LET r == func_dispatch(IF IsDispatchable
                           THEN <<ArgClass(arg), ArgClass(kwarg)>>
                           ELSE <<>>, backend)
        oc == [o EXCEPT !.clses = DefaultClses(IF IsDispatchable
                                  THEN <<ArgClass(arg), ArgClass(kwarg)>>
                                  ELSE <<>>),
                        !.impl = r.impl, !.warned = r.warned,
                        !.impls = r.impls]
    IN  IF r.error # "" THEN [oc EXCEPT !.error = r.error]
        ELSE [oc EXCEPT !.called = TRUE, !.args = arg, !.kwargs = kwarg,
                        !.argctx = "raw", !.kwctx = "raw",
                        !.error = CallError(r.impl)]

\* a wrapper that calls the implementation whatever the arguments are
WrapperNode_never(arg, kwarg, piping) == ""

\* the call node the wrapper returns, "" when it calls the implementation
WrapperNode(arg, kwarg, piping) ==
    IF kind = "plain" THEN ""
    ELSE IF pipeable /\ piping THEN "VerbCall"
    ELSE IF has_expr(arg) \/ has_expr(kwarg) THEN "FunctionCall"
    ELSE ""

\* func(arg, plus=kwarg, __backend=backend), func registered by register_func;
\* piping is what is_piping() finds at the call site
wrapper(arg, kwarg, piping, backend) ==
    /\ kind \in FuncKinds
    /\ LET o == [NoOut EXCEPT !.op = "wrapper", !.backend = backend,
                   !.given = <<arg, kwarg>>, !.piping = piping]
           node == WrapperNode(arg, kwarg, piping)
       IN  out' = IF node # "" THEN [o EXCEPT !.node = node]
                  ELSE WrapperCall(o, arg, kwarg, backend)
    /\ UNCHANGED <<regvars, backends>>

\* -------------------------------------------------------------- operators
\* the keys of OPERATOR_MAPS by their attributes (unary, right)
OpLeft ==
    {"add", "sub", "mul", "matmul", "truediv", "floordiv", "mod", "lshift",
     "rshift", "and_", "xor", "or_", "pow", "lt", "le", "eq", "ne", "gt", "ge"}

OpRight ==
    {"radd", "rsub", "rmul", "rmatmul", "rtruediv", "rfloordiv", "rmod",
     "rlshift", "rrshift", "rand_", "rxor", "ror_", "rpow"}

OpUnary == {"neg", "pos", "invert"}

OPERATOR_MAPS ==
    [op \in OpLeft \cup OpRight \cup OpUnary |->
        [unary |-> op \in OpUnary, right |-> op \in OpRight]]

\* the operator names the overloads of Expression hand to _op_handler
Overloads ==
    {"add", "radd", "sub", "rsub", "mul", "rmul", "matmul", "rmatmul",
     "truediv", "rtruediv", "floordiv", "rfloordiv", "mod", "rmod",
     "lshift", "rlshift", "rshift", "rrshift", "and_", "rand", "xor", "rxor",
     "or_", "ror", "pow", "rpow", "contains",
     "lt", "le", "eq", "ne", "gt", "ge", "neg", "pos", "invert"}

\* the operator classes: Operator, and the subclass of the tests that defines
\* _op_add, _op_mul and _op_sub
OperatorClasses == {"Operator", "MyOperator"}

OpDefined(opcls) == IF opcls = "MyOperator" THEN {"add", "mul", "sub"} ELSE {}

\* op[1:], the name without its first letter
LeftName(op) ==
    IF \E l \in DOMAIN OPERATOR_MAPS : "r" \o l = op
    THEN CHOOSE l \in DOMAIN OPERATOR_MAPS : "r" \o l = op
    ELSE "?"

\* Operator._find_op_func(opname): the method of the class, else the function
\* of the operator module
find_op_func(opcls, opname) ==
    IF opname \in OpDefined(opcls) THEN "_op_" \o opname
    ELSE "operator." \o opname

\* an operator node that looks the reflected name up as it is and keeps the
\* operands in the order it got them
get_op_func_asis(opcls, op) ==
    IF op \notin DOMAIN OPERATOR_MAPS
    THEN [error |-> "ValueError", func |-> "", swap |-> FALSE]
    ELSE [error |-> "", func |-> find_op_func(opcls, op), swap |-> FALSE]

\* Operator._get_op_func(): the function of the node, and whether it swaps its
\* first two arguments
get_op_func(opcls, op) ==
    IF op \notin DOMAIN OPERATOR_MAPS
    THEN [error |-> "ValueError", func |-> "", swap |-> FALSE]
    ELSE IF ~OPERATOR_MAPS[op].right
    THEN [error |-> "", func |-> find_op_func(opcls, op), swap |-> FALSE]
    ELSE [error |-> "", func |-> find_op_func(opcls, LeftName(op)),
          swap |-> TRUE]

\* the other operand of every binary operator node built: the constant c
Operand == "c"

\* func(a, b), func(a): the call written out as a term
Call2(func, a, b) == func \o "(" \o a \o "," \o b \o ")"

Call1(func, a) == func \o "(" \o a \o ")"

\* the function of the operator node applied to the evaluated arguments
\* (self, operand) of the node
op_func(opcls, op, self, operand) ==
    LET g == get_op_func(opcls, op)
    IN  IF OPERATOR_MAPS[op].unary THEN Call1(g.func, self)
        ELSE IF g.swap THEN Call2(g.func, operand, self)
        ELSE Call2(g.func, self, operand)

\* Function._pipda_eval of the operator node: the function of the node called
\* with the evaluated arguments of the node
Function_pipda_eval(step, self) ==
    [val |-> op_func(step[3], step[2], self, Operand), error |-> ""]

\* number of operator nodes in the expression e
OpCount(e) == Cardinality({i \in 1..Len(e) : e[i][1] = "op"})

\* ------------------------------------------------------------- references
\* Values are written as strings: "5" is the number 5, "x" the name x.  The
\* data evaluated against: an object with attributes, a dict, a list.
DataObjects == {"obj", "dict", "list"}

\* the attribute and item names used; the last six are also the names of the
\* fields of the nodes
FieldNames == {"parent", "ref", "func", "data", "args", "kwargs"}

RefNames == {"x"} \cup FieldNames

\* getattr(parent, ref): obj.x is 5, every other attribute of obj has a value
\* of its own; nothing else has attributes
AttrOf(parent, ref) ==
    IF parent = "obj" /\ ref \in RefNames
    THEN [val |-> IF ref = "x" THEN "5" ELSE "obj." \o ref, error |-> ""]
    ELSE [val |-> "", error |-> "AttributeError"]

\* parent[ref]: dict is {"x": 5, "parent": ..., ...}, list is [2, 1, 3]
ItemOf(parent, ref) ==
    CASE parent = "dict" ->
            IF ref \in RefNames
            THEN [val |-> IF ref = "x" THEN "5" ELSE "dict." \o ref,
                  error |-> ""]
            ELSE [val |-> "", error |-> "KeyError"]
      [] parent = "list" ->
            CASE ref = "0" -> [val |-> "2", error |-> ""]
              [] ref = "1" -> [val |-> "1", error |-> ""]
              [] ref = "2" -> [val |-> "3", error |-> ""]
              [] ref \in {"3", "5"} -> [val |-> "", error |-> "IndexError"]
              [] OTHER -> [val |-> "", error |-> "TypeError"]
      [] OTHER -> [val |-> "", error |-> "TypeError"]

\* the contexts references are evaluated under: None, the members of the
\* enum, and a ContextEval whose ref is the select context
RefContexts == {CtxNone} \cup ContextEnum \cup {"ContextTest"}

\* ContextBase.ref: the context the key of x[key] is evaluated under
CtxRef(c) == IF c = "ContextTest" THEN "ContextSelect" ELSE c

\* a context that gives the name of the attribute whatever it is
CtxGetattr_select(c, parent, ref) == [val |-> ref, error |-> ""]

\* context.getattr(parent, ref, level)
CtxGetattr(c, parent, ref) ==
    CASE c = "ContextSelect" -> [val |-> ref, error |-> ""]
      [] c \in {"ContextEval", "ContextTest"} -> AttrOf(parent, ref)
      [] OTHER -> [val |-> "", error |-> "NotImplementedError"]

\* a context that gives the key of the item whatever it is
CtxGetitem_select(c, parent, ref) == [val |-> ref, error |-> ""]

\* context.getitem(parent, ref, level)
CtxGetitem(c, parent, ref) ==
    CASE c = "ContextSelect" -> [val |-> ref, error |-> ""]
      [] c \in {"ContextEval", "ContextTest"} -> ItemOf(parent, ref)
      [] OTHER -> [val |-> "", error |-> "NotImplementedError"]

\* Symbolic._pipda_eval(data, context): the data itself
Symbolic_pipda_eval(d) == [val |-> d, error |-> ""]

\* A step <<kind, refkind, ref>> is the node built on its parent: kind "attr"
\* for parent.ref, "item" for parent[ref]; refkind "const" when ref is a plain
\* value and "item" when the key is the expression f[ref].  A step
\* <<"op", op, opcls>> is the operator node of class opcls built by the
\* overload op of its parent, with the constant operand for a binary operator.
Front(e) == SubSeq(e, 1, Len(e) - 1)

Last(e) == e[Len(e)]

\* an item reference that evaluates its key under the context itself
KeyContext_same(c) == c

\* the context the key of an item reference is evaluated under
KeyContext(c) == CtxRef(c)

\* Reference._pipda_eval of the node e against data d under the context c0:
\* ReferenceAttr and ReferenceItem, down to the symbol
RECURSIVE Reference_pipda_eval(_, _, _)
Reference_pipda_eval(e, d, c0) ==
    LET c == EnumValue(c0)
    IN  IF e = <<>> THEN Symbolic_pipda_eval(d)
        ELSE IF Last(e)[1] # "op" /\ c = CtxNone
        THEN [val |-> "", error |-> "ContextError"]
        ELSE
          LET parent == Reference_pipda_eval(Front(e), d, c)
              step == Last(e)
          IN  IF parent.error # "" THEN parent
              ELSE IF step[1] = "op"
              THEN Function_pipda_eval(step, parent.val)
              ELSE IF step[1] = "attr"
              THEN CtxGetattr(c, parent.val, step[3])
              ELSE
                LET ref == IF step[2] = "const"
                           THEN [val |-> step[3], error |-> ""]
                           ELSE Reference_pipda_eval(
                                    <<<<"item", "const", step[3]>>>>,
                                    d, KeyContext(c))
                IN  IF ref.error # "" THEN ref
                    ELSE CtxGetitem(c, parent.val, ref.val)

\* f = Symbolic()
Symbolic ==
    /\ expr' = <<>>
    /\ op_data' = "None"
    /\ out' = NoOut
    /\ UNCHANGED <<funvars, envvars>>

\* the attributes the instance of the node holds under a name that does not
\* start with _pipda_: Operator.__init__ sets self.op and self.data
InstanceAttrs(e) ==
    IF e # <<>> /\ Last(e)[1] = "op" THEN {"op", "data"} ELSE {}

\* node.name: the attribute of the instance when it has one, else
\* Expression.__getattr__(name): a ReferenceAttr on the node, except for the
\* names that start with _pipda_
Expression_getattr(name) ==
    /\ Len(expr) < MaxLevel
    /\ IF name \in InstanceAttrs(expr)
       THEN /\ out' = [NoOut EXCEPT !.op = "__getattr__", !.given = <<name>>,
                         !.result = IF name = "op" THEN Last(expr)[2]
                                    ELSE op_data]
            /\ expr' = expr
       ELSE IF name \in {"_pipda_parent", "_pipda_ref"}
       THEN /\ out' = [NoOut EXCEPT !.op = "__getattr__", !.given = <<name>>,
                         !.error = "AttributeError"]
            /\ expr' = expr
       ELSE /\ out' = [NoOut EXCEPT !.op = "__getattr__", !.given = <<name>>,
                         !.node = "ReferenceAttr"]
            /\ expr' = Append(expr, <<"attr", "const", name>>)
    /\ UNCHANGED <<funvars, op_data, envvars>>

\* Expression.__getitem__(item): a ReferenceItem on the node
Expression_getitem(refkind, item) ==
    /\ Len(expr) < MaxLevel
    /\ out' = [NoOut EXCEPT !.op = "__getitem__", !.node = "ReferenceItem"]
    /\ expr' = Append(expr, <<"item", refkind, item>>)
    /\ UNCHANGED <<funvars, op_data, envvars>>

\* register_operator(op_class)
register_operator(opcls) ==
    /\ REGISTERED' = opcls
    /\ out' = [NoOut EXCEPT !.op = "register_operator"]
    /\ UNCHANGED <<funvars, expr, op_data, pipevars, NAME>>

\* Operator.REGISTERED(op, (self, operand), {}) called by `caller`:
\* Operator.__init__ looks the function of the operator up
OperatorNew(op, caller) ==
    /\ Len(expr) < MaxLevel
    /\ OpCount(expr) < MaxOps
    /\ LET g == get_op_func(REGISTERED, op)
       IN  IF g.error # ""
           THEN /\ out' = [NoOut EXCEPT !.op = caller, !.given = <<op>>,
                             !.error = g.error]
                /\ UNCHANGED <<expr, op_data>>
           ELSE /\ out' = [NoOut EXCEPT !.op = caller, !.given = <<op>>,
                             !.node = "Operator"]
                /\ expr' = Append(expr, <<"op", op, REGISTERED>>)
                /\ op_data' = "None"
    /\ UNCHANGED <<funvars, envvars>>

\* Expression._op_handler(op, operand), called by the overload named op
Expression_op_handler(op) ==
    /\ op \in Overloads
    /\ OperatorNew(op, "_op_handler")

\* Operator.REGISTERED(op, (expr, operand), {}), written out
Operator_init(op) == OperatorNew(op, "Operator")

\* Operator._pipda_eval keeps the data in the node before it evaluates: the
\* data attribute of the outermost operator node of e after e was evaluated
\* against d
\* under c (the operator node is not reached when a reference above it fails
\* for want of a context)
OperatorData(e, d, c, old) ==
    IF \E i \in 1..Len(e) :
           /\ e[i][1] = "op"
           /\ \A k \in (i + 1)..Len(e) : e[k][1] # "op"
           /\ \A j \in (i + 1)..Len(e) : c # CtxNone
    THEN d
    ELSE old

\* expr._pipda_eval(d, c)
pipda_eval(d, c) ==
    /\ LET r == Reference_pipda_eval(expr, d, c)
       IN  out' = [NoOut EXCEPT !.op = "_pipda_eval", !.data = d,
                     !.inherited = c, !.result = r.val, !.error = r.error]
    /\ op_data' = OperatorData(expr, d, c, op_data)
    /\ UNCHANGED <<funvars, expr, envvars>>

\* ------------------------------------------------------- mixed contexts
\* a context whose positional arguments are evaluated under the context itself
CtxArgs_same(c) == c

\* context.args: the context the positional arguments are evaluated under
CtxArgs(c) == IF c = "ContextMixed" THEN "ContextSelect" ELSE c

\* context.kwargs: the context the keyword arguments are evaluated under
CtxKwargs(c) == IF c = "ContextMixed" THEN "ContextEval" ELSE c

\* d >> verb(expr, x=expr), verb registered with the context c: the positional
\* argument is evaluated against d under context.args, the keyword argument
\* under context.kwargs, and the verb is called with the results
Verb_evaluate(d, c) ==
    /\ LET ctx == EnumValue(c)
           a == Reference_pipda_eval(expr, d, CtxArgs(ctx))
           k == Reference_pipda_eval(expr, d, CtxKwargs(ctx))
           o == [NoOut EXCEPT !.op = "Verb", !.data = d, !.ctx = ctx,
                   !.argctx = CtxArgs(ctx)]
       IN  /\ out' = IF a.error # "" THEN [o EXCEPT !.error = a.error]
                     ELSE IF k.error # ""
                     THEN [o EXCEPT !.args = a.val, !.kwctx = CtxKwargs(ctx),
                                    !.error = k.error]
                     ELSE [o EXCEPT !.args = a.val, !.kwctx = CtxKwargs(ctx),
                                    !.kwargs = k.val, !.called = TRUE]
           /\ op_data' =
                  LET after == OperatorData(expr, d, CtxArgs(ctx), op_data)
                  IN  IF a.error # "" THEN after
                      ELSE OperatorData(expr, d, CtxKwargs(ctx), after)
    /\ UNCHANGED <<funvars, expr, envvars>>

\* ------------------------------------------------------- register_piping
\* The state of the class Data is the record ks: ks.saved is its entry of
\* PATCHED_CLASSES, ks.methods its methods.
\* _patch_cls_method(kls, method)
patch_cls_method(ks, method) ==
    IF ks.methods[method] = -1 THEN ks
    ELSE [saved |-> [ks.saved EXCEPT ![method] = ks.methods[method]],
          methods |-> [ks.methods EXCEPT ![method] = @ + 1]]

\* an unpatching that leaves the wrapper on the class
unpatch_cls_method_keep(ks, method) == ks

\* _unpatch_cls_method(kls, method)
unpatch_cls_method(ks, method) ==
    IF ks.saved[method] # -1
    THEN [saved |-> [ks.saved EXCEPT ![method] = -1],
          methods |-> [ks.methods EXCEPT ![method] = ks.saved[method]]]
    ELSE ks

\* _patch_cls_operator(kls, op)
patch_cls_operator(ks, op) ==
    patch_cls_method(patch_cls_method(ks, Method(op)), IMethod(op))

\* _unpatch_cls_operator(kls, op)
unpatch_cls_operator(ks, op) ==
    unpatch_cls_method(unpatch_cls_method(ks, Method(op)), IMethod(op))

\* the state of the class Data now
DataState == [saved |-> PATCHED_CLASSES.saved, methods |-> Data_methods]

\* whether the dictionary saved for the class is empty
NoneSaved(saved) == \A m \in ClassMethods : saved[m] = -1

\* _patch_all(op), _unpatch_all(op): every class of PATCHED_CLASSES
patch_all(ks, op) ==
    IF PATCHED_CLASSES.registered THEN patch_cls_operator(ks, op) ELSE ks

unpatch_all(ks, op) ==
    IF PATCHED_CLASSES.registered THEN unpatch_cls_operator(ks, op) ELSE ks

\* a register_piping that leaves the method of the operator it replaces bound
\* to the verb evaluator
RestoreCurrent_keep(m) == m

\* the reflected method of the current piping operator set back to the method
\* that was saved for it
RestoreCurrent(m) == [m EXCEPT ![RMethod(PIPING)] = orig_opmethod]

\* register_piping(op)
register_piping(op) ==
    IF op \notin PIPING_OPS
    THEN /\ out' = [NoOut EXCEPT !.op = "register_piping", !.given = <<op>>,
                      !.error = "ValueError"]
         /\ UNCHANGED <<funvars, expr, op_data, envvars>>
    ELSE LET m1 == IF PIPING # "None" THEN RestoreCurrent(rmethods)
                   ELSE rmethods
             k1 == IF PIPING # "None" THEN unpatch_all(DataState, PIPING)
                   ELSE DataState
             k2 == patch_all(k1, op)
         IN  /\ PIPING' = op
             /\ orig_opmethod' = m1[RMethod(op)]
             /\ rmethods' = [m1 EXCEPT ![RMethod(op)] = "_pipda_eval"]
             /\ PATCHED_CLASSES' = [PATCHED_CLASSES EXCEPT !.saved = k2.saved]
             /\ Data_methods' = k2.methods
             /\ out' = [NoOut EXCEPT !.op = "register_piping",
                          !.given = <<op>>]
             /\ UNCHANGED <<funvars, expr, op_data, clsvars, CURRENT_SIGN,
                            Verb_methods>>

\* delattr(Verb, PIPING_SIGNS[Verb.CURRENT_SIGN].method)
DropCurrent(ms) == ms \ {SignMethod(CURRENT_SIGN)}

\* register_piping(sign) of the older API: the method of the sign is set on
\* the class Verb, where it hides the operator method Verb inherits, and the
\* method of the sign before is deleted from the class
register_piping_sign(sign) ==
    IF sign \notin PIPING_SIGNS
    THEN /\ out' = [NoOut EXCEPT !.op = "register_piping_sign",
                      !.given = <<sign>>, !.error = "ValueError"]
         /\ UNCHANGED <<funvars, expr, op_data, envvars>>
    ELSE /\ CURRENT_SIGN' = sign
         /\ Verb_methods' =
                (IF CURRENT_SIGN # "None" THEN DropCurrent(Verb_methods)
                 ELSE Verb_methods) \cup {SignMethod(sign)}
         /\ out' = [NoOut EXCEPT !.op = "register_piping_sign",
                      !.given = <<sign>>]
         /\ UNCHANGED <<funvars, expr, op_data, clsvars, PIPING,
                        orig_opmethod, rmethods, PATCHED_CLASSES,
                        Data_methods>>

\* patch_classes(Data)
patch_classes ==
    /\ LET ks == IF NoneSaved(PATCHED_CLASSES.saved)
                 THEN patch_cls_operator(DataState, PIPING)
                 ELSE DataState
       IN  /\ PATCHED_CLASSES' = [registered |-> TRUE, saved |-> ks.saved]
           /\ Data_methods' = ks.methods
    /\ out' = [NoOut EXCEPT !.op = "patch_classes"]
    /\ UNCHANGED <<funvars, expr, op_data, clsvars, PIPING, orig_opmethod,
                   rmethods, CURRENT_SIGN, Verb_methods>>

\* unpatch_classes(Data): KeyError for a class that is not registered
unpatch_classes ==
    IF ~PATCHED_CLASSES.registered
    THEN /\ out' = [NoOut EXCEPT !.op = "unpatch_classes",
                      !.error = "KeyError"]
         /\ UNCHANGED <<funvars, expr, op_data, envvars>>
    ELSE LET ks == IF ~NoneSaved(PATCHED_CLASSES.saved)
                   THEN unpatch_cls_operator(DataState, PIPING)
                   ELSE DataState
         IN  /\ PATCHED_CLASSES' = [registered |-> FALSE, saved |-> ks.saved]
             /\ Data_methods' = ks.methods
             /\ out' = [NoOut EXCEPT !.op = "unpatch_classes"]
             /\ UNCHANGED <<funvars, expr, op_data, clsvars, PIPING,
                            orig_opmethod, rmethods, CURRENT_SIGN,
                            Verb_methods>>

\* left op verb(): the method of the class of the left operand is tried first;
\* an int has none that takes a VerbCall, the class Data has the ones it
\* defines, and a patched method declines a VerbCall.  The reflected method
\* of VerbCall is called when the left operand has declined.
pipe(left, op) ==
    /\ out' = [NoOut EXCEPT !.op = "pipe", !.cl = left, !.given = <<op>>,
                 !.result = IF left = "Data" /\ Data_methods[Method(op)] = 0
                            THEN "Data." \o Method(op)
                            ELSE "VerbCall." \o rmethods[RMethod(op)]]
    /\ UNCHANGED <<funvars, expr, op_data, envvars>>

\* ------------------------------------------------- Expression._op_method
\* OPERATORS of expression.py: name -> (sign, right)
OPERATORS ==
    [name \in OpLeft \cup OpRight \cup OpUnary |->
        [sign |-> CASE name \in {"add", "radd", "pos"} -> "+"
                    [] name \in {"sub", "rsub", "neg"} -> "-"
                    [] name \in {"mul", "rmul"} -> "*"
                    [] name \in {"matmul", "rmatmul"} -> "@"
                    [] name \in {"truediv", "rtruediv"} -> "/"
                    [] name \in {"floordiv", "rfloordiv"} -> "//"
                    [] name \in {"mod", "rmod"} -> "%"
                    [] name \in {"lshift", "rlshift"} -> "<<"
                    [] name \in {"rshift", "rrshift"} -> ">>"
                    [] name \in {"and_", "rand_"} -> "&"
                    [] name \in {"xor", "rxor"} -> "^"
                    [] name \in {"or_", "ror_"} -> "|"
                    [] name \in {"pow", "rpow"} -> "**"
                    [] name = "lt" -> "<"
                    [] name = "le" -> "<="
                    [] name = "eq" -> "=="
                    [] name = "ne" -> "!="
                    [] name = "gt" -> ">"
                    [] name = "ge" -> ">="
                    [] name = "invert" -> "~",
         right |-> name \in OpRight]]

\* an _op_method that builds an operator node whatever its operand is
op_method_always(op, operand) == "OperatorCall"

\* Expression._op_method(op, operand): NotImplemented when op is the left-hand
\* form of the piping operator and the operand is a VerbCall, else an operator
\* node
op_method(op, operand) ==
    IF /\ ~OPERATORS[op].right
       /\ ("r" \o op) \in DOMAIN OPERATORS
       /\ OPERATORS["r" \o op].sign = PIPING
       /\ operand = "VerbCall"
    THEN "NotImplemented"
    ELSE "OperatorCall"

\* e op operand, for an expression e and the operator method named op: the
\* method of e is tried first; when it declines, the reflected method of the
\* operand, a VerbCall, is called with e, which is either the verb evaluator
\* or the operator method VerbCall inherits
binop(op, operand) ==
    /\ LET o == [NoOut EXCEPT !.op = "binop", !.given = <<op, operand>>]
           sign == OPERATORS[op].sign
       IN  out' = IF op_method(op, operand) # "NotImplemented"
                  THEN [o EXCEPT !.node = "OperatorCall"]
                  ELSE IF rmethods[RMethod(sign)] = "_pipda_eval"
                  THEN [o EXCEPT !.called = TRUE, !.data = "e",
                          !.result = "VerbCall._pipda_eval(e)"]
                  ELSE [o EXCEPT !.node = op_method("r" \o op, "Expression")]
    /\ UNCHANGED <<funvars, expr, op_data, envvars>>

\* ------------------------------------------------------- Symbolic.__init__
\* name or varname(raise_exc=False) or Symbolic.NAME: the name of the
\* instance, "None" standing for None
ResolveName(name, varname) ==
    IF name # "None" THEN name
    ELSE IF varname # "None" THEN varname
    ELSE NAME

\* a class that records the name of whatever instance is created last
RecordName_last(self_name) == self_name

\* if not Symbolic.NAME: Symbolic.NAME = self.name
RecordName(self_name) == IF NAME = "None" THEN self_name ELSE NAME

\* Symbolic(name), assigned to the variable varname ("None" when the name of
\* the variable cannot be retrieved)
Symbolic_init(name, varname) ==
    /\ LET self_name == ResolveName(name, varname)
           recorded == RecordName(self_name)
       IN  /\ NAME' = recorded
           /\ out' = [NoOut EXCEPT !.op = "Symbolic.__init__",
                        !.given = <<name, varname>>,
                        !.result = self_name,
                        !.error = IF recorded # self_name THEN "ValueError"
                                  ELSE ""]
    /\ UNCHANGED <<funvars, expr, op_data, REGISTERED, pipevars>>

\* Symbolic._single_arg(arg), _no_args(): f.a, f[a], f + a, -f, ... give
\* Symbolic(self.name, ...) for the instance f, whose name is the recorded one
Symbolic_single_arg ==
    /\ NAME # "None"
    /\ Symbolic_init(NAME, "None")

\* ------------------------------------- is_expr and evaluate_expr of utils
\* An argument value is a tuple: <<"Expression">>, <<"int">>, or a container
\* <<kind, a, b>>: the list [a, b], the tuple (a, b), the set {a, b}, the
\* dict {a: b}, the slice(a, b).
Atoms == {<<"Expression">>, <<"int">>}

\* the values without a container in a container
Flat ==
    Atoms \cup {<<k, a, b>> : k \in {"list", "tuple", "set", "dict", "slice"},
                              a \in Atoms, b \in Atoms}

\* the values with at most one container in a container; the key of a dict
\* stays hashable
ArgTrees ==
    Flat \cup {<<k, a, b>> : k \in {"list", "dict", "slice"},
                             a \in Atoms, b \in Flat}

\* is_expr(expr) of utils, _is_expr(expr) of register: the items of a dict are
\* its (key, value) tuples
RECURSIVE is_expr(_)
is_expr(v) ==
    IF v[1] \in {"list", "tuple", "set"} THEN is_expr(v[2]) \/ is_expr(v[3])
    ELSE IF v[1] = "dict" THEN is_expr(<<"tuple", v[2], v[3]>>)
    ELSE v[1] = "Expression"

\* have_expr(args, kwargs), _have_expr(args, kwargs): vals are the values of
\* kwargs
have_expr(args, vals) ==
    \/ \E i \in 1..Len(args) : is_expr(args[i])
    \/ \E i \in 1..Len(vals) : is_expr(vals[i])

\* evaluate_expr(expr, data, context) of utils: an Expression gives its
\* value, a list, tuple or set its elements evaluated, a slice its bounds
\* evaluated, a dict its values evaluated under the same keys
RECURSIVE evaluate_nested(_)
evaluate_nested(v) ==
    IF v[1] = "Expression" THEN <<"value">>
    ELSE IF v[1] \in {"list", "tuple", "set", "slice"}
    THEN <<v[1], evaluate_nested(v[2]), evaluate_nested(v[3])>>
    ELSE IF v[1] = "dict" THEN <<"dict", v[2], evaluate_nested(v[3])>>
    ELSE v

\* evaluate_expr(v, data, context), observed
evaluate_expr_call(v) ==
    /\ out' = [NoOut EXCEPT !.op = "utils.evaluate_expr", !.given = <<v>>,
                 !.args = evaluate_nested(v)]
    /\ UNCHANGED <<regvars, backends>>

\* _try_calling_no_dataarg(func, (arg,), {"k": kwarg}, env): without an
\* expression found the function is called with the arguments as they are,
\* else a Function node is built and evaluated against the data of env
try_calling_no_dataarg(arg, kwarg) ==
    /\ out' = IF ~have_expr(<<arg>>, <<kwarg>>)
              THEN [NoOut EXCEPT !.op = "_try_calling_no_dataarg",
                      !.given = <<arg, kwarg>>, !.args = arg,
                      !.kwargs = kwarg, !.called = TRUE]
              ELSE [NoOut EXCEPT !.op = "_try_calling_no_dataarg",
                      !.given = <<arg, kwarg>>, !.node = "Function",
                      !.args = evaluate_nested(arg),
                      !.kwargs = evaluate_nested(kwarg), !.called = TRUE]
    /\ UNCHANGED <<regvars, backends>>

\* SpecExpr: argument values with expressions nested in containers, checked
\* for expressions and evaluated.
InitExpr == InitWith({"func"}, {{}}, {CtxNone}, {KwNone}, {FALSE})

NextExpr ==
    \/ \E v \in ArgTrees : evaluate_expr_call(v)
    \/ \E arg \in ArgTrees,
          kwarg \in Atoms \cup {<<"slice", <<"Expression">>, <<"int">>>>} :
            try_calling_no_dataarg(arg, kwarg)

SpecExpr == InitExpr /\ [][NextExpr]_vars

\* ------------------------------------------ the dispatch specifications
\* the runtime types dispatched on
DataTypes == {"int", "bool", "str"}

\* the backend arguments of dispatch: omitted, registered or not, unknown
DispatchBackends == Backends \cup {NoBackend, MissingBackend}

\* SpecDispatch: a verb with up to three backends, favored or not.
\* register_verb(func=func) or register_verb(int, func=func)
InitDispatch ==
    InitWith({"verb"}, {{}, {"int"}}, {CtxNone}, {KwNone}, {FALSE})

NextDispatch ==
    \/ /\ nreg < MaxRegs
       /\ \E rcls \in {{"int"}, {"object"}}, b \in Backends, fav \in BOOLEAN :
            register(rcls, b, CtxNone, KwNone, fav)
    \/ \E cl \in DataTypes, b \in DispatchBackends : Dispatch(cl, b)

SpecDispatch == InitDispatch /\ [][NextDispatch]_vars

\* SpecTypes: a verb or a function with up to two backends and registrations
\* for a type, its subtype, object, or a tuple of types.
TypesBackends == {DEFAULT_BACKEND, "A"}

TypesRegCls == {{"int"}, {"bool"}, {"object"}, {"bool", "str"}}

InitTypes ==
    InitWith(Kinds, {{}, {"int"}}, {CtxNone}, {KwNone}, {FALSE})

NextTypes ==
    \/ /\ nreg < MaxRegs
       /\ \E rcls \in TypesRegCls, b \in TypesBackends :
            register(rcls, b, CtxNone, KwNone, FALSE)
    \/ /\ nreg < MaxRegs
       /\ \E rcls \in TypesRegCls, b \in TypesBackends :
            func_register(rcls, b, CtxNone, KwNone, FALSE)
    \/ \E cl \in DataTypes, b \in TypesBackends \cup {NoBackend, MissingBackend} :
            Dispatch(cl, b)
    \/ \E cl \in DataTypes, b \in TypesBackends \cup {NoBackend, MissingBackend} :
            FuncDispatch(<<cl>>, b)

SpecTypes == InitTypes /\ [][NextTypes]_vars

\* SpecArgs: a dispatchable function with up to two backends, favored or not,
\* dispatched on the types of no, one or two arguments.
FuncArgTypes ==
    {<<>>} \cup {<<c>> : c \in DataTypes}
           \cup {<<c1, c2>> : c1 \in DataTypes, c2 \in DataTypes}

InitArgs ==
    InitWith({"dispatchable"}, {{}, {"int"}}, {CtxNone}, {KwNone}, {FALSE})

NextArgs ==
    \/ /\ nreg < MaxRegs
       /\ \E rcls \in {{"int"}, {"str"}, {"object"}}, b \in TypesBackends,
             fav \in BOOLEAN :
            func_register(rcls, b, CtxNone, KwNone, fav)
    \/ \E clses \in FuncArgTypes, b \in {NoBackend, DEFAULT_BACKEND} :
            FuncDispatch(clses, b)

SpecArgs == InitArgs /\ [][NextArgs]_vars

\* SpecEval: a verb or a pipeable function registered with a context and a
\* per-parameter mapping, further registrations with contexts of their own,
\* and the evaluation of call nodes under every inherited context.
EvalKinds == {"verb", "dispatchable"}

RegContexts == {CtxNone} \cup ContextEnum

InheritedContexts == {CtxNone} \cup ContextObjects

\* the context arguments of the registrations after construction
MoreContexts == {CtxNone, "Context.EVAL", "Context.PENDING"}

EvalTypes == {"int", "str"}

\* kw_context / extra_contexts arguments: none, one naming the keyword
\* parameter, one naming a parameter the function does not have
KwPlus(c) == KwDict({<<"plus", c>>})

KwUnknown == KwDict({<<"bogus", "Context.EVAL">>})

InitEval ==
    InitWith(EvalKinds, {{}, {"int"}}, RegContexts,
             {KwNone, KwPlus("Context.SELECT"), KwUnknown}, BOOLEAN)

NextEval ==
    \/ /\ nreg < MaxCtxRegs
       /\ \E ctx \in MoreContexts, kwc \in {KwNone, KwPlus("Context.EVAL")} :
            register({"int"}, DEFAULT_BACKEND, ctx, kwc, FALSE)
    \/ /\ nreg < MaxCtxRegs
       /\ \E ctx \in MoreContexts, kwc \in {KwNone, KwPlus("Context.EVAL")} :
            func_register({"int"}, DEFAULT_BACKEND, ctx, kwc, FALSE)
    \/ \E dt \in EvalTypes, inh \in InheritedContexts :
            VerbCall_pipda_eval(dt, inh, NoBackend)
    \/ \E dt \in EvalTypes, inh \in InheritedContexts :
            FunctionCallVerb(dt, inh, NoBackend)
    \/ \E dt \in EvalTypes, inh \in InheritedContexts :
            FunctionCallFunc(dt, inh, NoBackend)
    \/ VerbCall_pipda_eval("int", "ContextEval", MissingBackend)
    \/ FunctionCallVerb("int", "ContextEval", MissingBackend)
    \/ FunctionCallFunc("int", "ContextEval", MissingBackend)
    \/ EvaluateRaw
    \/ \E tn \in BOOLEAN,
          extra \in {KwNone, KwPlus("Context.SELECT"), KwUnknown} :
            register_verb(tn, "Context.EVAL", extra)
    \/ \E extra \in {KwNone, KwPlus("Context.SELECT"), KwUnknown} :
            set_context("Context.EVAL", extra)

SpecEval == InitEval /\ [][NextEval]_vars

\* SpecCall: a function of register_func, plain or not, pipeable or not, with
\* registrations in two backends, called with values and with expressions.
InitCall ==
    InitWith(FuncKinds, {{}, {"int"}}, {CtxNone}, {KwNone}, BOOLEAN)

NextCall ==
    \/ /\ nreg < MaxRegs
       /\ \E b \in TypesBackends, fav \in BOOLEAN :
            func_register({"int"}, b, CtxNone, KwNone, fav)
    \/ \E arg \in ArgShapes, kwarg \in {"int", "expr"}, piping \in BOOLEAN,
          b \in {NoBackend, "A"} :
            wrapper(arg, kwarg, piping, b)

SpecCall == InitCall /\ [][NextCall]_vars

\* SpecRef: reference nodes built on a symbol, attribute by attribute and item
\* by item, and evaluated against an object, a dict and a list.
AttrNames == RefNames \cup {"_pipda_ref"}

ItemKeys == {"x", "0", "2", "data"}

InitRef == InitWith({"verb"}, {{}}, {CtxNone}, {KwNone}, {FALSE})

NextRef ==
    \/ Symbolic
    \/ \E name \in AttrNames : Expression_getattr(name)
    \/ \E item \in ItemKeys : Expression_getitem("const", item)
    \/ Expression_getitem("item", "0")
    \/ \E d \in DataObjects, c \in RefContexts : pipda_eval(d, c)
    \/ \E d \in DataObjects,
          c \in {"Context.SELECT", "Context.EVAL", "Context.MIXED"} :
            Verb_evaluate(d, c)

SpecRef == InitRef /\ [][NextRef]_vars

\* SpecOp: operator nodes built by the overloads of Expression on a symbol or
\* on a reference, under either operator class, and evaluated.
InitOp == InitWith({"verb"}, {{}}, {CtxNone}, {KwNone}, {FALSE})

NextOp ==
    \/ Symbolic
    \/ \E name \in {"x", "data", "args"} : Expression_getattr(name)
    \/ \E item \in {"x", "data"} : Expression_getitem("const", item)
    \/ \E opcls \in OperatorClasses : register_operator(opcls)
    \/ \E op \in Overloads : Expression_op_handler(op)
    \/ \E op \in DOMAIN OPERATOR_MAPS \cup {"nosuch", "rnosuch"} :
           Operator_init(op)
    \/ \E d \in {"obj", "dict"}, c \in {CtxNone, "Context.EVAL"} :
           pipda_eval(d, c)

SpecOp == InitOp /\ [][NextOp]_vars

\* SpecPiping: the piping operator registered again and again, with the class
\* Data patched and unpatched in between.
PipingOps == PIPING_OPS \cup {"123", "."}

InitPiping == InitWith({"verb"}, {{}}, {CtxNone}, {KwNone}, {FALSE})

NextPiping ==
    \/ \E op \in PipingOps : register_piping(op)
    \/ \E sign \in {"+", ">>", "|", "."} : register_piping_sign(sign)
    \/ patch_classes
    \/ unpatch_classes
    \/ \E left \in {"int", "Data"}, op \in PIPING_OPS : pipe(left, op)
    \/ \E op \in OpLeft, operand \in {"VerbCall", "int"} : binop(op, operand)

SpecPiping == InitPiping /\ [][NextPiping]_vars

\* SpecSymbolic: symbols of the older API created one after the other, with a
\* name given, with the name of the variable they are assigned to, or with
\* neither.
SymbolNames == {"None", "f", "g", "X", "Y"}

VarNames == {"None", "f", "g", "X", "_"}

InitSymbolic == InitWith({"verb"}, {{}}, {CtxNone}, {KwNone}, {FALSE})

NextSymbolic ==
    \/ \E name \in SymbolNames, varname \in VarNames :
           Symbolic_init(name, varname)
    \/ Symbolic_single_arg

SpecSymbolic == InitSymbolic /\ [][NextSymbolic]_vars

\* ================================================================== claims
\* ------------------------------------------------- vocabulary of the claims
Registered_(b) == b \in SeqToSet(registry_keys)

\* t is cl or an ancestor of cl
IsAncestor(t, cl) == t \in SeqToSet(mro(cl))

\* the entry of backend b for type t was put there by a registration
\* (it is neither empty nor the function the table was created around)
IsRegisteredType(b, t) ==
    /\ registry[b][t] # ""
    /\ ~(t = "object" /\ registry[b][t] = "_backend_generic")
    /\ ~(t = "object" /\ registry[b][t] = "func" /\ IsGeneric
         /\ b = DEFAULT_BACKEND)

\* the registered ancestors of cl in backend b
RegisteredAncestors(b, cl) ==
    {t \in Types : IsAncestor(t, cl) /\ IsRegisteredType(b, t)}

\* the nearest of them: every other registered ancestor is above it
NearestAncestor(b, cl) ==
    CHOOSE t \in RegisteredAncestors(b, cl) :
        \A u \in RegisteredAncestors(b, cl) : IsAncestor(u, t)

\* backend b holds an implementation matching cl
Matches(b, cl) == Registered_(b) /\ RegisteredAncestors(b, cl) # {}

\* that implementation
MatchOf(b, cl) == registry[b][NearestAncestor(b, cl)]

\* ... registered with favored=True / not
MatchesFavored(b, cl) == Matches(b, cl) /\ favorables[b] = MatchOf(b, cl)
MatchesNonFavored(b, cl) == Matches(b, cl) /\ favorables[b] # MatchOf(b, cl)

MatchingBackends(cl) == {b \in Backends : Matches(b, cl)}

\* the position of a backend in the registry
IndexOf(b) == CHOOSE i \in 1..Len(registry_keys) : registry_keys[i] = b

\* the index of the .register() call that brought the function, 0 for func
TimeOf(fn) ==
    IF fn = "func" THEN 0
    ELSE CHOOSE k \in 1..nreg : fn = "f" \o ToString(k)

ScanObserved == out.op = "dispatch" /\ out.backend = NoBackend
ExplicitObserved == out.op = "dispatch" /\ out.backend # NoBackend

\* ---------------------------------------------------------------------- C1
\* C1: with a backend A holding a non-favored implementation for T and a
\* backend B holding a favored one (and no other backend holding a favored
\* one), dispatch for T without a backend returns B's implementation and
\* does not warn, whatever the order in which A and B were registered.
C1_FavoredWins ==
    ScanObserved =>
        \A a, b \in Backends :
            ( /\ a # b
              /\ MatchesNonFavored(a, out.cl)
              /\ MatchesFavored(b, out.cl)
              /\ \A c \in Backends \ {b} : ~MatchesFavored(c, out.cl) )
            => (out.impl = MatchOf(b, out.cl) /\ ~out.warned)

\* ---------------------------------------------------------------------- C2
\* the matching implementations are all non-favored, in two or more backends
C2_Case ==
    /\ ScanObserved
    /\ kind = "verb"
    /\ Cardinality(MatchingBackends(out.cl)) >= 2
    /\ \A b \in MatchingBackends(out.cl) : MatchesNonFavored(b, out.cl)

\* the matching implementation that was registered most recently
C2_MostRecentMatch ==
    LET ms == {MatchOf(b, out.cl) : b \in MatchingBackends(out.cl)}
    IN  CHOOSE m \in ms : \A n \in ms : TimeOf(n) <= TimeOf(m)

\* the matching implementation of the backend that was created most recently
C2_LastBackendMatch ==
    LET bs == MatchingBackends(out.cl)
        last == CHOOSE b \in bs : \A c \in bs : IndexOf(c) <= IndexOf(b)
    IN  MatchOf(last, out.cl)

\* C2 as stated: in that case dispatch warns and returns the matching
\* implementation that was registered most recently.
C2_Original ==
    C2_Case => (out.warned /\ out.impl = C2_MostRecentMatch)

\* C2 amended: in that case dispatch warns and returns the matching
\* implementation of the backend that entered the registry most recently;
\* registering more into an existing backend does not move that backend.
C2_Amended ==
    C2_Case => (out.warned /\ out.impl = C2_LastBackendMatch)

\* a scan with two matching backends where the newest matching function sits
\* in the older backend
C2_Witness ==
    /\ C2_Case
    /\ out.warned
    /\ out.impl = C2_LastBackendMatch
    /\ out.impl # C2_MostRecentMatch

C4_OneBackend == registry_keys = <<DEFAULT_BACKEND>>

\* C4: within one backend (a named one, or the default backend when it is the
\* only one), dispatch returns the implementation of the nearest registered
\* ancestor of the type; with no registered ancestor in the default backend
\* it returns the generic function when the verb was registered without a
\* type and the NotImplementedError placeholder otherwise.
C4_NearestAncestor ==
    /\ ( /\ out.op = "dispatch"
         /\ kind = "verb"
         /\ ExplicitObserved
         /\ Registered_(out.backend)
         /\ RegisteredAncestors(out.backend, out.cl) # {} )
       => out.impl = registry[out.backend]
                             [NearestAncestor(out.backend, out.cl)]
    /\ ( /\ out.op = "dispatch"
         /\ kind = "verb"
         /\ C4_OneBackend
         /\ out.backend \in {NoBackend, DEFAULT_BACKEND} )
       => /\ out.error = ""
          /\ ~out.warned
          /\ RegisteredAncestors(DEFAULT_BACKEND, out.cl) # {} =>
                out.impl = registry[DEFAULT_BACKEND]
                                   [NearestAncestor(DEFAULT_BACKEND, out.cl)]
          /\ RegisteredAncestors(DEFAULT_BACKEND, out.cl) = {} =>
                out.impl = (IF IsGeneric THEN "func" ELSE "_backend_generic")

\* bool is dispatched to the implementation of int although object is
\* registered too
C4_Witness ==
    /\ out.op = "dispatch"
    /\ kind = "verb"
    /\ C4_OneBackend
    /\ out.cl = "bool"
    /\ RegisteredAncestors(DEFAULT_BACKEND, "bool") = {"int", "object"}
    /\ out.impl = registry[DEFAULT_BACKEND]["int"]

\* ---------------------------------------------------------------------- C5
\* C5: for a verb registered without a type, a scan with exactly one backend
\* holding a matching implementation returns it without a warning, and the
\* scan returns the generic function exactly when no backend holds a
\* matching implementation.
C5_GenericNotCounted ==
    (ScanObserved /\ kind = "verb" /\ IsGeneric) =>
        /\ \A b \in Backends :
              MatchingBackends(out.cl) = {b} =>
                  (out.impl = MatchOf(b, out.cl) /\ ~out.warned)
        /\ (out.impl = "func") <=> (MatchingBackends(out.cl) = {})

\* the generic function and one implementation in the default backend
C5_Witness ==
    /\ ScanObserved /\ kind = "verb" /\ IsGeneric
    /\ MatchingBackends(out.cl) = {DEFAULT_BACKEND}
    /\ out.impl = MatchOf(DEFAULT_BACKEND, out.cl)
    /\ ~out.warned

\* ------------------------------------------- vocabulary: evaluation claims
\* the context impl was registered with itself, None when it has none
OwnContext(impl) ==
    IF impl \in DOMAIN contexts THEN contexts[impl].c ELSE CtxNone

\* the per-parameter mapping that applies to impl
OwnKwContext(impl) ==
    IF impl \in DOMAIN contexts THEN contexts[impl].k ELSE kw_context

\* impl was added by a .register() call after construction
AddedByRegister(impl) == impl \notin {"", "func", "_backend_generic"}

\* the call node named op was evaluated up to the choice of its context
Evaluated(op) == out.op = op /\ out.ctx # ""

\* the context impl is registered with, its own or the one of construction,
\* is PENDING
RegisteredPending(impl) ==
    EnumValue(get_context(impl, CtxNone).c) = "ContextPending"

\* C6: when a VerbCall is evaluated and the implementation dispatched to has
\* a context C of its own, every argument that kw_context does not cover is
\* evaluated under C, whatever context is inherited; and whenever the
\* implementation or the construction supplies a context, the effective
\* context is that one and not the inherited one.
C6_ImplContext ==
    Evaluated("VerbCall") =>
        LET own == OwnContext(out.impl)
        IN  /\ (own # CtxNone /\ EnumValue(own) # "ContextPending") =>
                  /\ out.ctx = EnumValue(own)
                  /\ out.argctx \in {"", EnumValue(own)}
                  /\ CallKey \notin KwKeys(OwnKwContext(out.impl)) =>
                         out.kwctx = EnumValue(own)
            /\ (own # CtxNone \/ context # CtxNone) =>
                  out.ctx = EnumValue(IF own # CtxNone THEN own ELSE context)

\* C7: an implementation added with verb.register(...) without a context of
\* its own is evaluated under the context given to register_verb, with or
\* without a kw_context, under every inherited context.
C7_InheritsVerbContext ==
    (/\ kind = "verb"
     /\ Evaluated("VerbCall") \/ Evaluated("FunctionCall")
     /\ AddedByRegister(out.impl)
     /\ OwnContext(out.impl) = CtxNone
     /\ context # CtxNone)
    => out.ctx = EnumValue(context)

\* C8: no registration keeps a per-parameter context mapping that names a
\* parameter the function does not have: neither register_verb / .register,
\* nor the extra_contexts of register_verb and Operator.set_context.
C8_UnknownParamRejected ==
    /\ \A impl \in DOMAIN contexts : KwKeys(contexts[impl].k) \subseteq Params
    /\ (out.op \in {"register_verb", "set_context"} /\ out.error = "") =>
          {p[1] : p \in out.accepted} \subseteq Params

\* C9: whenever the effective context of a verb call is Pending, no argument
\* is evaluated and the implementation is called with the raw args and
\* kwargs, when evaluated as a VerbCall and when nested as a FunctionCall.
C9_PendingRaw ==
    (/\ kind = "verb"
     /\ out.op \in {"VerbCall", "FunctionCall"}
     /\ out.ctx = "ContextPending")
    => /\ out.called
       /\ out.argctx = "raw" /\ out.args = "expr"
       /\ out.kwctx = "raw" /\ out.kwargs = "expr"

\* C10 as stated: a function registered with PENDING receives its arguments
\* unevaluated when its deferred call (FunctionCall) is evaluated.
C10_Original ==
    (/\ kind # "verb"
     /\ out.op = "FunctionCall"
     /\ out.impl # ""
     /\ RegisteredPending(out.impl))
    => /\ out.called
       /\ out.args = "expr"
       /\ out.kwargs = "expr"

\* C10 amended: a pipeable function registered with PENDING receives its
\* arguments unevaluated when data is piped into its call (VerbCall); its
\* deferred call (FunctionCall) evaluates every argument under the inherited
\* context; the later evaluation of a raw argument under EVAL succeeds.
C10_Amended ==
    kind # "verb" =>
        /\ (out.op = "VerbCall" /\ out.impl # ""
            /\ RegisteredPending(out.impl)) =>
              /\ out.called
              /\ out.argctx = "raw" /\ out.args = "expr"
              /\ out.kwctx = "raw" /\ out.kwargs = "expr"
        /\ out.op = "FunctionCall" =>
              /\ out.ctx = out.inherited
              /\ out.argctx = out.inherited
              /\ out.args # "expr"
        /\ out.op = "evaluate_expr" =>
              /\ out.args = "value"
              /\ out.error = ""

\* a pipeable function registered with PENDING was piped data under an
\* inherited EVAL context, received its arguments raw and evaluated one
C10_Witness ==
    /\ kind # "verb"
    /\ out.op = "evaluate_expr"
    /\ out.inherited = "ContextEval"
    /\ RegisteredPending(out.impl)
    /\ out.ctx = "ContextPending"
    /\ out.kwargs = "expr"
    /\ out.args = "value"

\* --------------------------------------------------------------------- C11
\* C11: when a VerbCall is evaluated under a base context that is not
\* Pending, a keyword argument whose name is a key of the kw_context of the
\* implementation is evaluated under the context mapped to that name; the
\* positional argument, and a keyword argument that is no key of it, are
\* evaluated under the base context.
C11_KwContext ==
    (Evaluated("VerbCall") /\ out.ctx # "ContextPending") =>
        LET kwc == OwnKwContext(out.impl)
        IN  /\ out.kwctx = (IF CallKey \in KwKeys(kwc)
                           THEN EnumValue(
                                    (CHOOSE p \in kwc.m : p[1] = CallKey)[2])
                           ELSE out.ctx)
            /\ out.argctx \in {"", out.ctx}
            /\ out.called => out.argctx = out.ctx

\* the keyword argument was evaluated under SELECT, the positional one under
\* the base context EVAL, and the implementation received a name and a value
C11_Witness ==
    /\ Evaluated("VerbCall")
    /\ out.ctx = "ContextEval"
    /\ out.kwctx = "ContextSelect"
    /\ out.called
    /\ out.args = "value"
    /\ out.kwargs = "name"

\* --------------------------------------------------------------------- C12
\* one of the arguments of the call is symbolic
C12_Symbolic == \E i \in 1..Len(out.given) : has_expr(out.given[i])

\* C12 as stated: a name registered with register_func, called with a
\* symbolic argument, returns a deferred call node and invokes no
\* implementation; called without one it invokes the implementation at once.
C12_Original ==
    out.op = "wrapper" =>
        /\ C12_Symbolic => (out.node \in {"FunctionCall", "VerbCall"}
                            /\ ~out.called /\ out.impl = "")
        /\ (~C12_Symbolic /\ out.error = "") => (out.node = "" /\ out.called)

\* C12 amended: a function that is not plain, called with a symbolic
\* argument, returns a deferred call node (a VerbCall when it is pipeable and
\* the call is piped, else a FunctionCall) and invokes no implementation;
\* called without one it invokes the implementation at once unless it is
\* pipeable and the call is piped, where it returns a VerbCall; a plain
\* function is always invoked at once with its arguments as they are.
C12_Amended ==
    out.op = "wrapper" =>
        /\ (kind # "plain" /\ C12_Symbolic) =>
              /\ out.node = (IF pipeable /\ out.piping THEN "VerbCall"
                             ELSE "FunctionCall")
              /\ ~out.called /\ out.impl = ""
        /\ (kind # "plain" /\ ~C12_Symbolic) =>
              IF pipeable /\ out.piping
              THEN out.node = "VerbCall" /\ ~out.called
              ELSE out.node = "" /\ (out.error = "" => out.called)
        /\ kind = "plain" =>
              /\ out.node = ""
              /\ out.error \in {"", "NotImplementedError"}
              /\ out.called => (out.args = out.given[1]
                                /\ out.kwargs = out.given[2])
              /\ out.impl # "" => out.called

\* a function that is neither plain nor piped returned a FunctionCall for a
\* list holding an expression
C12_Witness ==
    /\ out.op = "wrapper"
    /\ kind = "dispatchable"
    /\ ~out.piping
    /\ out.given = <<"list_expr", "int">>
    /\ out.node = "FunctionCall"
    /\ ~out.called
    /\ nreg > 0

\* -------------------------------------------------- reference vocabulary
\* the expression under construction is f.name, f[key]
IsAttrRef(name) == expr = <<<<"attr", "const", name>>>>

IsItemRef(key) == expr = <<<<"item", "const", key>>>>

\* the expression was evaluated against d under the context c
EvaluatedRef(d, c) ==
    out.op = "_pipda_eval" /\ out.data = d /\ out.inherited = c

Returned(v) == out.error = "" /\ out.result = v

\* C13 as stated: f.x evaluated under SELECT gives the name "x" for any data,
\* and evaluated under EVAL against the dict {"x": 5} gives 5.
C13_Original ==
    (out.op = "_pipda_eval" /\ IsAttrRef("x")) =>
        /\ out.inherited = "Context.SELECT" => Returned("x")
        /\ EvaluatedRef("dict", "Context.EVAL") => Returned("5")

\* C13 amended: f.x evaluated under SELECT gives the name "x" for any data,
\* and under EVAL it gives 5 against data whose attribute x is 5; against the
\* dict {"x": 5} it is the item reference f["x"] that gives 5, the attribute
\* reference raising AttributeError.
C13_Amended ==
    /\ (out.op = "_pipda_eval" /\ IsAttrRef("x")) =>
        /\ out.inherited = "Context.SELECT" => Returned("x")
        /\ EvaluatedRef("obj", "Context.EVAL") => Returned("5")
        /\ EvaluatedRef("dict", "Context.EVAL") =>
               out.error = "AttributeError"
    /\ (IsItemRef("x") /\ EvaluatedRef("dict", "Context.EVAL")) =>
           Returned("5")

\* f.x was evaluated under EVAL against the object and gave 5
C13_Witness ==
    IsAttrRef("x") /\ EvaluatedRef("obj", "Context.EVAL") /\ Returned("5")

\* the expression under construction is f[f[key]]
IsNestedItemRef(key) == expr = <<<<"item", "item", key>>>>

\* C14: an item reference x[y] evaluated under c evaluates x under c and the
\* key y under c.ref, and gives c.getitem of the two values: f[f[0]] on the
\* list d gives d[0] under a context whose ref is SELECT and d[d[0]] under
\* plain EVAL.
C14_ItemKeyUnderRef ==
    /\ (IsNestedItemRef("0") /\ EvaluatedRef("list", "ContextTest")) =>
           Returned(ItemOf("list", "0").val)
    /\ (IsNestedItemRef("0") /\ EvaluatedRef("list", "Context.EVAL")) =>
           Returned(ItemOf("list", ItemOf("list", "0").val).val)
    /\ \A d \in DataObjects, c \in {"Context.EVAL", "ContextTest"} :
           (/\ EvaluatedRef(d, c)
            /\ expr # <<>>
            /\ Last(expr)[1] = "item"
            /\ Last(expr)[2] = "item") =>
               LET parent == Reference_pipda_eval(Front(expr), d, c)
                   key == IF c = "ContextTest"
                          THEN [val |-> Last(expr)[3], error |-> ""]
                          ELSE ItemOf(d, Last(expr)[3])
                   got == ItemOf(parent.val, key.val)
               IN  (parent.error = "" /\ key.error = "") =>
                       (out.result = got.val /\ out.error = got.error)

\* f[f[0]] was evaluated against the list under the context whose ref is
\* SELECT and gave its first element
C14_Witness ==
    IsNestedItemRef("0") /\ EvaluatedRef("list", "ContextTest") /\ Returned("2")

\* a reference (not the bare symbol) was evaluated under the context c
EvaluatedRefUnder(c) ==
    out.op = "_pipda_eval" /\ expr # <<>> /\ out.inherited = c

\* C15 as stated: resolving an attribute or item reference under the Pending
\* context, and evaluating a reference with no context at all, both fail with
\* ContextError.
C15_Original ==
    (EvaluatedRefUnder("Context.PENDING") \/ EvaluatedRefUnder(CtxNone)) =>
        out.error = "ContextError"

\* C15 amended: resolving an attribute or item reference under the Pending
\* context fails with NotImplementedError; evaluating a reference with no
\* context at all fails with ContextError.
C15_Amended ==
    /\ EvaluatedRefUnder("Context.PENDING") =>
           out.error = "NotImplementedError"
    /\ EvaluatedRefUnder(CtxNone) => out.error = "ContextError"

\* an item reference was resolved under the Pending context and failed
C15_Witness ==
    /\ IsItemRef("x")
    /\ EvaluatedRef("dict", "Context.PENDING")
    /\ out.error = "NotImplementedError"

\* -------------------------------------------------- operator vocabulary
\* each reflected operator with its left-hand operator
ReflectedOf ==
    {<<"radd", "add">>, <<"rsub", "sub">>, <<"rmul", "mul">>,
     <<"rmatmul", "matmul">>, <<"rtruediv", "truediv">>,
     <<"rfloordiv", "floordiv">>, <<"rmod", "mod">>, <<"rlshift", "lshift">>,
     <<"rrshift", "rshift">>, <<"rand_", "and_">>, <<"rxor", "xor">>,
     <<"ror_", "or_">>, <<"rpow", "pow">>}

\* the non-reflected binary operators
WrittenOrder ==
    {"add", "sub", "mul", "matmul", "truediv", "floordiv", "mod", "lshift",
     "rshift", "and_", "xor", "or_", "pow", "lt", "le", "eq", "ne", "gt", "ge"}

\* the implementation of the left-hand operator l in the operator class k
ImplOf(k, l) ==
    IF (k = "MyOperator" /\ l \in {"add", "mul", "sub"}) THEN "_op_" \o l
    ELSE "operator." \o l

\* the node is an operator node and was evaluated without an error
EvaluatedOp ==
    /\ out.op = "_pipda_eval"
    /\ out.error = ""
    /\ expr # <<>>
    /\ Last(expr)[1] = "op"

\* the value of the operand the operator node was built on
SelfValue == Reference_pipda_eval(Front(expr), out.data, out.inherited).val

\* C16: a reflected binary operator applies the implementation of its
\* left-hand operator (the _op_<name> method of the operator class if defined,
\* else the standard operator) to its two operands swapped; a non-reflected
\* binary operator, rshift included, passes the operands in written order.
C16_ReflectedSwapped ==
    EvaluatedOp =>
        LET op == Last(expr)[2]
            k == Last(expr)[3]
        IN  /\ \A p \in ReflectedOf :
                   op = p[1] =>
                       out.result = ImplOf(k, p[2]) \o "(" \o Operand \o ","
                                        \o SelfValue \o ")"
            /\ op \in WrittenOrder =>
                   out.result = ImplOf(k, op) \o "(" \o SelfValue \o ","
                                    \o Operand \o ")"

\* c - f.x was evaluated with the operator class that defines _op_sub
C16_Witness ==
    /\ EvaluatedOp
    /\ expr = <<<<"attr", "const", "x">>, <<"op", "rsub", "MyOperator">>>>
    /\ out.data = "obj"
    /\ out.result = "_op_sub(c,5)"

\* C17: every binary operator with an Expression on either side, the reflected
\* forms of & and | included, and every unary operator on an Expression gives
\* a new operator node without raising: each operator name Expression passes
\* on is a key of the operator table.
C17_OverloadsSupported ==
    out.op = "_op_handler" =>
        /\ out.given[1] \in DOMAIN OPERATOR_MAPS
        /\ out.error = ""
        /\ out.node = "Operator"

\* C18: on every kind of node, the attribute or item named parent, ref, func,
\* data, args or kwargs builds a reference node for that name, and the
\* reference evaluates to the attribute or item of that name of the data.
C18_FieldNamesNotShadowed ==
    /\ (out.op = "__getattr__" /\ out.given[1] \in FieldNames) =>
           /\ out.node = "ReferenceAttr"
           /\ Last(expr) = <<"attr", "const", out.given[1]>>
    /\ \A name \in FieldNames :
           /\ (IsAttrRef(name) /\ EvaluatedRef("obj", "Context.EVAL")) =>
                  Returned(AttrOf("obj", name).val)
           /\ (IsItemRef(name) /\ EvaluatedRef("dict", "Context.EVAL")) =>
                  Returned(ItemOf("dict", name).val)

\* an evaluation of a call node or of an expression is being made
Evaluating == out'.op \in {"VerbCall", "FunctionCall", "_pipda_eval"}

\* C19: an evaluation mutates no shared state: the node, its children and the
\* dispatch bookkeeping of the callables it references (registry, favorables,
\* contexts, backends) are the same before and after, so that a second
\* evaluation with the same data and context gives the same result.
C19_EvaluationPure ==
    [][Evaluating =>
           /\ expr' = expr
           /\ op_data' = op_data
           /\ registry_keys' = registry_keys
           /\ registry' = registry
           /\ favorables' = favorables
           /\ contexts' = contexts
           /\ backends' = backends]_vars

\* -------------------------------------------------- piping vocabulary
\* the reflected method of exactly the current piping operator is the verb
\* evaluator, and every other one is the original method
PipingMethods ==
    /\ PIPING \in PIPING_OPS
    /\ \A op \in PIPING_OPS :
           rmethods[RMethod(op)] =
               IF op = PIPING THEN "_pipda_eval" ELSE "original"

\* the same for the older API: the class Verb holds the method of the current
\* sign and no other, so that every other one is the method it inherits
SignMethods ==
    IF CURRENT_SIGN = "None" THEN Verb_methods = {}
    ELSE /\ CURRENT_SIGN \in
               {"+", "-", "*", "@", "/", "//", "%", "**", "<<", ">>", "&",
                "^", "|"}
         /\ Verb_methods = {SignMethod(CURRENT_SIGN)}

SignStep ==
    out'.op = "register_piping_sign" =>
        IF out'.given[1] \in
               {"+", "-", "*", "@", "/", "//", "%", "**", "<<", ">>", "&",
                "^", "|"}
        THEN out'.error = "" /\ CURRENT_SIGN' = out'.given[1]
        ELSE /\ out'.error = "ValueError"
             /\ UNCHANGED <<CURRENT_SIGN, Verb_methods>>

\* what a register_piping call that is being made does: a supported operator
\* becomes the current one, an unsupported one raises ValueError and changes
\* nothing
PipingStep ==
    out'.op = "register_piping" =>
        IF out'.given[1] \in {">>", "|", "//", "@", "%", "&", "^"}
        THEN out'.error = "" /\ PIPING' = out'.given[1]
        ELSE /\ out'.error = "ValueError"
             /\ UNCHANGED <<PIPING, orig_opmethod, rmethods, PATCHED_CLASSES,
                            Data_methods>>

\* C20: after any sequence of register_piping calls the current piping
\* operator is the operator of the last successful call, the reflected method
\* of VerbCall for it is the verb evaluator and the reflected methods of all
\* other supported operators are their original methods; a call with an
\* unsupported operator raises ValueError and changes nothing.
C20_PipingRegistered ==
    /\ [](PipingMethods /\ SignMethods)
    /\ [][PipingStep /\ SignStep]_vars

\* the piping operator was changed from >> to |
C20_Witness ==
    /\ out.op = "register_piping"
    /\ out.given = <<"|">>
    /\ PIPING = "|"
    /\ rmethods["__ror__"] = "_pipda_eval"
    /\ rmethods["__rrshift__"] = "original"

\* the class Data has the methods it defined, unwrapped, and no other
DataUnpatched ==
    \A m \in ClassMethods :
        Data_methods[m] = IF m \in {"__rshift__", "__irshift__", "__and__"}
                          THEN 0 ELSE -1

\* C21: once unpatch_classes(Data) has undone patch_classes(Data), whatever
\* patch_classes and register_piping calls were made in between, every
\* operator method of Data is the method it had before it was patched, and
\* later register_piping calls do not patch it again.
C21_UnpatchRestores ==
    ~PATCHED_CLASSES.registered =>
        /\ DataUnpatched
        /\ \A m \in ClassMethods : PATCHED_CLASSES.saved[m] = -1

\* Data was unpatched while & was the piping operator, for which it had been
\* patched by a register_piping call
C21_Witness ==
    /\ out.op = "unpatch_classes"
    /\ out.error = ""
    /\ PIPING = "&"
    /\ ~PATCHED_CLASSES.registered
    /\ Data_methods["__and__"] = 0

\* the left-hand operator method of each piping operator
PipingMethodOf ==
    {<<">>", "rshift">>, <<"|", "or_">>, <<"//", "floordiv">>,
     <<"@", "matmul">>, <<"%", "mod">>, <<"&", "and_">>, <<"^", "xor">>}

\* C22: for the piping operator op in use, e op v with an expression e and a
\* VerbCall v builds no operator node: the method of e declines and v is
\* evaluated with e itself as the data; every other operator builds an
\* operator node.
C22_PipingDeclines ==
    (out.op = "binop" /\ out.given[2] = "VerbCall") =>
        IF <<PIPING, out.given[1]>> \in PipingMethodOf
        THEN /\ out.node = ""
             /\ out.called
             /\ out.data = "e"
        ELSE out.node = "OperatorCall" /\ ~out.called

\* e | v was evaluated as a verb call after | was made the piping operator
C22_Witness ==
    /\ out.op = "binop"
    /\ out.given = <<"or_", "VerbCall">>
    /\ PIPING = "|"
    /\ out.called
    /\ out.node = ""

\* the name of the symbol being created: the name given, else the name of the
\* variable, else the recorded name
CreatedName ==
    IF out'.given[1] # "None" THEN out'.given[1]
    ELSE IF out'.given[2] # "None" THEN out'.given[2]
    ELSE NAME

\* C23: once a symbol was created with the name N, a creation with another
\* name fails with ValueError, a creation with the name N succeeds, and the
\* recorded name does not change, a failed creation included.
C23_OneSymbolName ==
    [][(out'.op = "Symbolic.__init__" /\ NAME # "None") =>
           /\ NAME' = NAME
           /\ out'.error = IF CreatedName = NAME THEN "" ELSE "ValueError"]_vars

\* a symbol assigned to _ was refused after the symbol f had been created
C23_Witness ==
    /\ out.op = "Symbolic.__init__"
    /\ out.given = <<"None", "_">>
    /\ out.error = "ValueError"
    /\ NAME = "f"

\* -------------------------------------------------- a verb as an argument
\* the evaluation of the first argument of the call node being evaluated,
\* under the context and against the data of the enclosing call
FirstArgument == evaluate_expr(out'.inherited)

\* C24: when a verb call whose first argument contains an expression is
\* evaluated as an argument of an enclosing call, its first argument is
\* evaluated against the enclosing data under the enclosing context, the
\* implementation is the one dispatch gives for the type of that result, and
\* the remaining arguments are evaluated against that result, not against the
\* enclosing data.
C24_VerbAsArgument ==
    [][(out'.op = "FunctionCall" /\ kind = "verb") =>
           IF FirstArgument.error # ""
           THEN /\ out'.error = FirstArgument.error
                /\ out'.impl = ""
                /\ out'.argctx = ""
                /\ ~out'.called
           ELSE /\ FirstArgument.val = "name" => out'.cl = "str"
                /\ FirstArgument.val = "value" => out'.cl \in EvalTypes
                /\ out'.impl = dispatch(out'.cl, out'.backend).impl
                /\ out'.argctx # "" => out'.data = FirstArgument.val
                /\ out'.called => out'.argctx # ""]_vars

\* the first argument gave an int value of the enclosing data, the
\* implementation registered for int was chosen and called with the remaining
\* arguments evaluated against that value
C24_Witness ==
    /\ out.op = "FunctionCall"
    /\ kind = "verb"
    /\ out.called
    /\ out.cl = "int"
    /\ out.impl \notin {"", "func", "_backend_generic"}
    /\ out.data = "value"
    /\ out.args = "value"

\* -------------------------------------------------- order of an evaluation
\* the last operation evaluated a call node
CallNode == out.op \in {"VerbCall", "FunctionCall"}

\* an operand of the node was evaluated: an argument under some context, or,
\* for a FunctionCall, the first argument, whose class is then known
OperandEvaluated ==
    \/ out.argctx \notin {"", "raw"}
    \/ out.kwctx \notin {"", "raw"}
    \/ out.op = "FunctionCall" /\ out.cl # ""

\* every operand of the node was evaluated
AllEvaluated ==
    /\ out.argctx \notin {"", "raw"}
    /\ out.kwctx \notin {"", "raw"}
    /\ out.args # ""
    /\ out.kwargs # ""

\* the lookup of the implementation was made and raised
ResolutionFailed ==
    /\ CallNode
    /\ out.backend = MissingBackend
    /\ out.impl = ""
    /\ out.error = "NotImplementedError"
    /\ out.op = "FunctionCall" => out.cl # ""

\* C25 as stated: in evaluating a VerbCall or a FunctionCall the
\* implementation and the context are resolved before any operand is
\* evaluated, every operand is evaluated before the implementation is invoked,
\* and when resolution fails no operand has been evaluated and no
\* implementation has run.
C25_Original ==
    CallNode =>
        /\ OperandEvaluated => (out.impl # "" /\ out.ctx # "")
        /\ out.called => AllEvaluated
        /\ ResolutionFailed => (~OperandEvaluated /\ ~out.called)

\* C25: a VerbCall resolves the implementation and the context before it
\* evaluates any operand, so that no operand has been evaluated when its
\* resolution fails; a FunctionCall resolves the implementation after it has
\* evaluated the first argument (of a verb) or every argument (of another
\* function). Either node invokes the implementation after every operand is
\* evaluated, except that a VerbCall under a Pending context passes the
\* operands unevaluated, and invokes none when resolution fails.
C25_Amended ==
    CallNode =>
        /\ out.op = "VerbCall" =>
               /\ OperandEvaluated => (out.impl # "" /\ out.ctx # "")
               /\ ResolutionFailed => ~OperandEvaluated
        /\ (out.op = "FunctionCall" /\ (out.impl # "" \/ ResolutionFailed)) =>
               /\ OperandEvaluated
               /\ kind # "verb" => AllEvaluated
        /\ out.called =>
               \/ AllEvaluated
               \/ /\ out.op = "VerbCall"
                  /\ out.ctx = "ContextPending"
                  /\ out.argctx = "raw"
                  /\ out.kwctx = "raw"
        /\ ResolutionFailed => ~out.called

\* the deferred call of a dispatchable function with a backend that has no
\* registration: its arguments were evaluated, then the lookup raised
C25_Witness ==
    /\ out.op = "FunctionCall"
    /\ kind = "dispatchable"
    /\ ResolutionFailed
    /\ out.args = "value"
    /\ out.kwargs = "value"
    /\ ~out.called

FuncScanObserved ==
    out.op = "dispatch" /\ kind = "dispatchable" /\ out.backend = NoBackend

\* what backend b gives for the type cl is a real implementation: neither the
\* placeholder of the backend nor the generic function
RealIn(b, cl) ==
    /\ RegDispatch(b, cl) # "_backend_generic"
    /\ ~(RegDispatch(b, cl) = "func" /\ cls = {} /\ b = DEFAULT_BACKEND)

\* the least of a set of indexes
FirstIndex(S) == CHOOSE i \in S : \A j \in S : i <= j

\* what backend b gives for the first of the types clses it has a real
\* implementation for, "" when it has none
FirstRealOf(b, clses) ==
    LET S == {i \in 1..Len(clses) : RealIn(b, clses[i])}
    IN  IF S = {} THEN "" ELSE RegDispatch(b, clses[FirstIndex(S)])

\* a favored implementation is among the pairs found
FavoredAmong(found) ==
    \E j \in 1..Len(found) : favorables[found[j][1]] = found[j][2]

\* the last pair found is type-specific and b gives for cl what it gives for
\* object
ObjectAfterSpecific(b, cl, found) ==
    /\ found # <<>>
    /\ found[Len(found)][2] # RegDispatch(found[Len(found)][1], "object")
    /\ RegDispatch(b, cl) = RegDispatch(b, "object")

\* what backend b gives for cl is taken, the pairs found being taken before
Acceptable(b, cl, found) ==
    /\ RealIn(b, cl)
    /\ FavoredAmong(found) => favorables[b] = RegDispatch(b, cl)
    /\ ~ObjectAfterSpecific(b, cl, found)

FirstAcceptableOf(b, clses, found) ==
    LET S == {i \in 1..Len(clses) : Acceptable(b, clses[i], found)}
    IN  IF S = {} THEN "" ELSE RegDispatch(b, clses[FirstIndex(S)])

\* the types dispatched on are those given, the type of None when none is
DefaultsToNone ==
    out.clses = (IF out.given = <<>> THEN <<"NoneType">> ELSE out.given)

FavoredReturned(b, t) ==
    /\ b \in SeqToSet(registry_keys)
    /\ favorables[b] # ""
    /\ registry[b][t] = favorables[b]
    /\ dispatch(t, NoBackend).impl = registry[b][t]
    /\ ~dispatch(t, NoBackend).warned

\* the step is a registration in backend b for types other than t
RegisteredOthers(b, t) ==
    /\ nreg' = nreg + 1
    /\ registry'[b] # registry[b]
    /\ registry'[b][t] = registry[b][t]
    /\ \A a \in Backends \ {b} : registry'[a] = registry[a]

\* C28: once an implementation is registered with favored=True in backend B
\* for type T and dispatch for T without a backend returns it without a
\* warning, it keeps doing so after any later registration in backend B for
\* other types, favored or not.
C28_FavoredKept ==
    [][\A b \in Backends, t \in {"int", "object"} :
           (FavoredReturned(b, t) /\ RegisteredOthers(b, t)) =>
               /\ (dispatch(t, NoBackend).impl)' = registry[b][t]
               /\ ~(dispatch(t, NoBackend).warned)']_vars

\* -------------------------------------------------- the default backend, named
\* C29: for a dispatchable function registered generically whose only backend
\* is the default one, dispatch(*types) and dispatch(*types,
\* backend="_default") return the same implementation, for every tuple of
\* argument types and every set of type registrations.
C29_DefaultBackendSame ==
    ( /\ out.op = "dispatch"
      /\ kind = "dispatchable"
      /\ cls = {}
      /\ registry_keys = <<DEFAULT_BACKEND>> ) =>
        /\ out.impl = func_dispatch(out.given, NoBackend).impl
        /\ out.impl = func_dispatch(out.given, DEFAULT_BACKEND).impl

\* -------------------------------------------------- nested expressions
\* C30: for every argument value, if evaluate_expr evaluates an Expression
\* nested in it (in a list, tuple, set, dict value or slice bound), the check
\* that decides deferral reports that the value contains an Expression, so
\* that a function called without deferral receives no value evaluate_expr
\* would change; and every Expression the check detects is evaluated by
\* evaluate_expr, so that the check finds none in the result.
C30_CheckMatchesEvaluation ==
    /\ out.op = "utils.evaluate_expr" =>
           /\ out.args # out.given[1] => is_expr(out.given[1])
           /\ is_expr(out.given[1]) => ~is_expr(out.args)
    /\ (out.op = "_try_calling_no_dataarg" /\ out.node = "") =>
           /\ evaluate_nested(out.args) = out.args
           /\ evaluate_nested(out.kwargs) = out.kwargs

=============================================================================
